---- MODULE Spec2Model ----
(***************************************************************************)
(* Model of the retrieval-and-answer pipeline and of the vector index      *)
(* lifecycle of the AI support desk agent:                                  *)
(*   app/services/vector_store_service.py  (FAISS index singleton)          *)
(*   app/services/rerank_service.py        (cross-encoder rerank)           *)
(*   app/services/chat_service.py          (retrieve, parse, escalate)      *)
(*   app/services/ingestion_service.py     (chunks + vectors)               *)
(*   app/models/db_models.py               (documents, chunks, cascade)     *)
(*                                                                         *)
(* Numbers: a confidence c is held as the integer 100*c, an L2 distance is  *)
(* the squared distance IndexFlatL2 reports, a text is a small integer and  *)
(* its embedding a short integer vector.                                    *)
(***************************************************************************)
EXTENDS Integers, Sequences, FiniteSets, TLC

VARIABLES
    _index,          \* vector_store_service._index: the in-memory FAISS index
    _embedding_dim,  \* vector_store_service._embedding_dim
    disk,            \* the file at INDEX_PATH
    documents,       \* ids of the rows of table documents
    chunks,          \* rows of table document_chunks, in rowid order
    last,            \* the latest call: its arguments and its outcome
    turn,            \* the answer_with_rag call in flight: position, locals
    requests,        \* the add_embeddings calls in flight, one per caller
    conversations,   \* rows of table conversations: row i holds the
                     \* session_id of the conversation of id i
    messages,        \* rows of table messages, in id order
    supervisor       \* the SupervisorAgent object of the process, if built

vars == <<_index, _embedding_dim, disk, documents, chunks, last, turn,
          requests, conversations, messages, supervisor>>

\* the tables of the chat log, which only the chat endpoint writes
chat_log == <<conversations, messages>>

\* the calls in flight, which an operation that runs alone leaves alone
inflight == <<turn, requests>>

(***************************************************************************)
(* Bounds of the model                                                      *)
(***************************************************************************)
MaxEntries == 3        \* entries the index holds in the index specification
MaxBatch == 2          \* vectors of one add_embeddings call
MaxK == 3              \* top_k of a direct search_similar call
MaxChunks == 6         \* chunk rows in the retrieval specification
MaxAnswerChunks == 2   \* chunk rows in the answer specification
MaxOrphanEntries == 3  \* index entries in the deletion specification
MaxRanked == 3         \* ranked results given to build_context_from_chunks
MaxIngestChunks == 5   \* chunk rows in the ingestion specification
MaxMessages == 4       \* rows of table messages in the chat specification
MaxUploadChunks == 4   \* chunk rows in the upload specification
MaxUploadDocs == 4     \* document rows in the upload specification
MaxTextLen == 2600     \* characters of the longest text that is split
MaxHistoryMessages == 12  \* rows of table messages in the history specification
MaxConcEntries == 3    \* vectors added in the specification of concurrent adds
MaxFragments == 2      \* pieces of text a guarded query is made of
MaxTurnChunks == 3     \* chunk rows in the specification of a turn

Dims == {1, 2}
Vectors == {<<0>>, <<1>>, <<0, 1>>, <<1, 1>>}

Min(a, b) == IF a <= b THEN a ELSE b

Max(S) == CHOOSE x \in S : \A y \in S : y <= x

SeqsUpTo(S, n) == UNION {[1..m -> S] : m \in 0..n}

(***************************************************************************)
(* vector_store_service.py                                                  *)
(***************************************************************************)

\* `_index = None`, and the absence of the file at INDEX_PATH
NoIndex == [exists |-> FALSE, d |-> 0, ids |-> <<>>, vecs |-> <<>>]

\* `_embedding_dim = None`
NoDim == 0

ntotal(idx) == Len(idx.ids)

Entries(idx) == {<<idx.ids[i], idx.vecs[i]>> : i \in 1..Len(idx.ids)}

\* the ids of the entries of the index idx
IndexIdsOf(idx) == {idx.ids[p] : p \in 1..Len(idx.ids)}

_create_new_index(embedding_dim) ==
    [_index |-> [exists |-> TRUE, d |-> embedding_dim, ids |-> <<>>, vecs |-> <<>>],
     _embedding_dim |-> embedding_dim]

_load_index(dsk) ==
    IF dsk.exists
    THEN [_index |-> dsk, _embedding_dim |-> dsk.d]
    ELSE [_index |-> NoIndex, _embedding_dim |-> NoDim]

\* init_index without the early return of lines 90-91
init_index_Reinit(idx, dim, dsk, embedding_dim) ==
    IF dsk.exists
    THEN _load_index(dsk)
    ELSE _create_new_index(embedding_dim)

\* init_index that never reads the file
init_index_NeverLoads(idx, dim, dsk, embedding_dim) ==
    IF idx.exists
    THEN [_index |-> idx, _embedding_dim |-> dim]
    ELSE _create_new_index(embedding_dim)

init_index(idx, dim, dsk, embedding_dim) ==
    IF idx.exists
    THEN [_index |-> idx, _embedding_dim |-> dim]
    ELSE IF dsk.exists
         THEN _load_index(dsk)
         ELSE _create_new_index(embedding_dim)

\* add_embeddings without the save of line 138
save_index_Skipped(idx, dsk) == dsk

save_index(idx, dsk) == IF idx.exists THEN idx ELSE dsk

\* numpy: np.array(embeddings).astype("float32") needs rows of one length
Homogeneous(embeddings) ==
    \A i \in 1..Len(embeddings) : Len(embeddings[i]) = Len(embeddings[1])

\* an index that takes rows of any length
add_with_ids_ok_AnyDimension(idx, chunk_ids, embeddings) ==
    Len(chunk_ids) = Len(embeddings)

\* faiss add_with_ids: the rows have the index's dimension, one id per row
add_with_ids_ok(idx, chunk_ids, embeddings) ==
    /\ Len(embeddings[1]) = idx.d
    /\ Len(chunk_ids) = Len(embeddings)

add_with_ids(idx, chunk_ids, embeddings) ==
    [idx EXCEPT !.ids = idx.ids \o chunk_ids, !.vecs = idx.vecs \o embeddings]

add_embeddings(idx, dim, dsk, chunk_ids, embeddings) ==
    IF embeddings = <<>>
    THEN [_index |-> idx, _embedding_dim |-> dim, disk |-> dsk, status |-> "returned"]
    ELSE IF ~Homogeneous(embeddings)
    THEN [_index |-> idx, _embedding_dim |-> dim, disk |-> dsk, status |-> "raised"]
    ELSE LET st == IF ~idx.exists
                   THEN init_index(idx, dim, dsk, Len(embeddings[1]))
                   ELSE [_index |-> idx, _embedding_dim |-> dim]
         IN  IF ~add_with_ids_ok(st._index, chunk_ids, embeddings)
             THEN [_index |-> st._index, _embedding_dim |-> st._embedding_dim,
                   disk |-> dsk, status |-> "raised"]
             ELSE LET added == add_with_ids(st._index, chunk_ids, embeddings)
                  IN  [_index |-> added, _embedding_dim |-> st._embedding_dim,
                       disk |-> save_index(added, dsk), status |-> "returned"]

RECURSIVE SqDist(_, _)
\* squared L2 distance of two vectors of one length (IndexFlatL2)
SqDist(u, v) ==
    IF u = <<>> THEN 0
    ELSE (u[1] - v[1]) * (u[1] - v[1]) + SqDist(Tail(u), Tail(v))

\* position of the nearest entry among the positions P; ties go to the
\* entry added first
Nearest(idx, q, P) ==
    CHOOSE i \in P : \A j \in P :
        \/ SqDist(idx.vecs[i], q) < SqDist(idx.vecs[j], q)
        \/ (SqDist(idx.vecs[i], q) = SqDist(idx.vecs[j], q) /\ i <= j)

RECURSIVE NearestFirst(_, _, _, _)
\* the (label, distance) pairs of the k nearest entries among the positions
\* P, nearest first
NearestFirst(idx, q, P, k) ==
    IF k = 0 \/ P = {} THEN <<>>
    ELSE LET i == Nearest(idx, q, P)
         IN  <<(<<idx.ids[i], SqDist(idx.vecs[i], q)>>)>>
             \o NearestFirst(idx, q, P \ {i}, k - 1)

\* faiss search: k slots of (label, distance), the unused ones labelled -1
faiss_search(idx, q, k) ==
    LET near == NearestFirst(idx, q, 1..Len(idx.ids), k)
    IN  near \o [s \in 1..(k - Len(near)) |-> <<-1, -1>>]

\* search_similar without the test of lines 164-165
DropFiller_KeepsAll(slots) == slots

RECURSIVE DropFiller(_)
\* lines 162-166: the slots that are not filler
DropFiller(slots) ==
    IF slots = <<>> THEN <<>>
    ELSE IF slots[1][1] = -1
         THEN DropFiller(Tail(slots))
         ELSE <<slots[1]>> \o DropFiller(Tail(slots))

search_similar(idx, embedding, top_k) ==
    IF ~idx.exists \/ ntotal(idx) = 0
    THEN [status |-> "returned", results |-> <<>>]
    ELSE IF Len(embedding) # idx.d
    THEN [status |-> "raised", results |-> <<>>]
    ELSE [status |-> "returned",
          results |-> DropFiller(faiss_search(idx, embedding, top_k))]

(***************************************************************************)
(* embedding_service.py, rerank_service.py                                  *)
(***************************************************************************)
Texts == {0, 1}        \* chunk contents and query texts
Scores == {0, 1, 2}    \* relevance scores of the cross-encoder

\* the cross-encoder for one query: a score for every passage text
Predictors == [Texts -> Scores]

\* the sentence-transformer: one vector per text, the same for a chunk and
\* for a query of that text
get_embedding(text) == <<text>>

get_embeddings(texts) == [i \in 1..Len(texts) |-> get_embedding(texts[i])]

RECURSIVE InsertByScore(_, _)
\* x goes behind every element whose score is at least its own
InsertByScore(sorted, x) ==
    IF sorted = <<>> THEN <<x>>
    ELSE IF sorted[1][3] >= x[3]
         THEN <<sorted[1]>> \o InsertByScore(Tail(sorted), x)
         ELSE <<x>> \o sorted

\* rerank_chunks without the sort of line 63
SortByScoreDesc_Unsorted(ranked) == ranked

RECURSIVE SortByScoreDesc(_)
\* list.sort(key=score, reverse=True): stable, highest score first
SortByScoreDesc(ranked) ==
    IF ranked = <<>> THEN <<>>
    ELSE InsertByScore(SortByScoreDesc(SubSeq(ranked, 1, Len(ranked) - 1)),
                       ranked[Len(ranked)])

\* candidates: sequence of <<chunk_id, text>>; predict: the score
\* _reranker.predict gives the pair (query, text)
rerank_chunks(predict, candidates, top_k) ==
    IF candidates = <<>> THEN <<>>
    ELSE LET scores == [i \in 1..Len(candidates) |-> predict[candidates[i][2]]]
             ranked == [i \in 1..Len(candidates) |->
                          <<candidates[i][1], candidates[i][2], scores[i]>>]
             sorted == SortByScoreDesc(ranked)
         IN  SubSeq(sorted, 1, Min(top_k, Len(sorted)))

(***************************************************************************)
(* config.py                                                                *)
(***************************************************************************)
TOP_K_RETRIEVER == 20
TOP_K_RERANK == 5
ESCALATION_CONFIDENCE_THRESHOLD == 55      \* 0.55
DEFAULT_CONFIDENCE == 70                   \* 0.7

(***************************************************************************)
(* chat_service.py                                                          *)
(***************************************************************************)

\* lines 80-84: the rows whose id is one of chunk_ids, in the order of rows
\* (the order in which the table hands them out)
fetch(rows, chunk_ids) ==
    LET Wanted(row) == \E i \in 1..Len(chunk_ids) : chunk_ids[i] = row.id
    IN  SelectSeq(rows, Wanted)

\* a dictionary keyed by the position of the row in the list fetched
chunk_by_id_ByPosition(fetched) == [i \in 1..Len(fetched) |-> fetched[i]]

\* line 85: {c.id: c for c in chunks}, a later row replaces an earlier one
\* of the same id
chunk_by_id(fetched) ==
    [cid \in {fetched[i].id : i \in 1..Len(fetched)} |->
        fetched[CHOOSE i \in 1..Len(fetched) :
                    /\ fetched[i].id = cid
                    /\ \A j \in (i + 1)..Len(fetched) : fetched[j].id # cid]]

\* chunk_by_id.get(cid) is not None
Resolves(by_id, cid) == cid \in DOMAIN by_id

RECURSIVE Candidates_StopsAtOrphan(_, _)
\* step D with a break in the place of the continue of line 94
Candidates_StopsAtOrphan(by_id, results) ==
    IF results = <<>> THEN <<>>
    ELSE IF Resolves(by_id, results[1][1])
         THEN <<(<<results[1][1], by_id[results[1][1]].content>>)>>
              \o Candidates_StopsAtOrphan(by_id, Tail(results))
         ELSE <<>>

RECURSIVE Candidates(_, _)
\* step D: the (id, content) pairs of the results that resolve
Candidates(by_id, results) ==
    IF results = <<>> THEN <<>>
    ELSE IF Resolves(by_id, results[1][1])
         THEN <<(<<results[1][1], by_id[results[1][1]].content>>)>>
              \o Candidates(by_id, Tail(results))
         ELSE Candidates(by_id, Tail(results))

\* rows: table document_chunks in the order the query of line 80 reads it;
\* encode_ok: _model.encode returns (it raises when the model cannot run:
\* out of memory, device lost)
\* a variant that calls the reranker also when no candidate is left
retrieve_relevant_chunks_RerankAlways(idx, rows, query, top_k, predict, encode_ok) ==
    LET found == search_similar(idx, get_embedding(query), top_k)
        chunk_ids == [i \in 1..Len(found.results) |-> found.results[i][1]]
        by_id == chunk_by_id(fetch(rows, chunk_ids))
        candidates == Candidates(by_id, found.results)
        reranked == rerank_chunks(predict, candidates, TOP_K_RERANK)
    IN  IF ~encode_ok
        THEN [status |-> "raised", embeds |-> 1, searches |-> 0,
              reranks |-> 0, candidates |-> <<>>, final |-> <<>>]
        ELSE IF found.status = "raised"
        THEN [status |-> "raised", embeds |-> 1, searches |-> 1,
              reranks |-> 0, candidates |-> <<>>, final |-> <<>>]
        ELSE IF found.results = <<>>
        THEN [status |-> "returned", embeds |-> 1, searches |-> 1,
              reranks |-> 0, candidates |-> <<>>, final |-> <<>>]
        ELSE [status |-> "returned", embeds |-> 1, searches |-> 1,
              reranks |-> 1,
              candidates |-> candidates,
              final |-> [i \in 1..Len(reranked) |->
                            <<by_id[reranked[i][1]], reranked[i][3]>>]]

retrieve_relevant_chunks(idx, rows, query, top_k, predict, encode_ok) ==
    LET found == search_similar(idx, get_embedding(query), top_k)
        chunk_ids == [i \in 1..Len(found.results) |-> found.results[i][1]]
        by_id == chunk_by_id(fetch(rows, chunk_ids))
        candidates == Candidates(by_id, found.results)
        reranked == rerank_chunks(predict, candidates, TOP_K_RERANK)
    IN  IF ~encode_ok
        THEN [status |-> "raised", embeds |-> 1, searches |-> 0,
              reranks |-> 0, candidates |-> <<>>, final |-> <<>>]
        ELSE IF found.status = "raised"
        THEN [status |-> "raised", embeds |-> 1, searches |-> 1,
              reranks |-> 0, candidates |-> <<>>, final |-> <<>>]
        ELSE IF found.results = <<>>
        THEN [status |-> "returned", embeds |-> 1, searches |-> 1,
              reranks |-> 0, candidates |-> <<>>, final |-> <<>>]
        ELSE IF candidates = <<>>
        THEN [status |-> "returned", embeds |-> 1, searches |-> 1,
              reranks |-> 0, candidates |-> <<>>, final |-> <<>>]
        ELSE [status |-> "returned", embeds |-> 1, searches |-> 1,
              reranks |-> 1,
              candidates |-> candidates,
              final |-> [i \in 1..Len(reranked) |->
                            <<by_id[reranked[i][1]], reranked[i][3]>>]]

\* chunk.document: the row of table documents the chunk belongs to; its
\* file name is held as the pair of "file" and the number of the upload
document(chunk) ==
    [id |-> chunk.document_id, filename |-> <<"file", chunk.document_id>>]

\* lines 156-160: "[Snippet idx | Doc: .. | doc_id=.. | chunk_id=.. |
\* distance=..]" and the content under it
Section(idx, chunk, dist) ==
    [snippet |-> idx, filename |-> document(chunk).filename,
     doc_id |-> document(chunk).id, chunk_id |-> chunk.id,
     distance |-> dist, content |-> chunk.content]

\* line 161: "<filename> (doc_id=.., chunk_id=..)"
Descriptor(chunk) ==
    [filename |-> document(chunk).filename, doc_id |-> document(chunk).id,
     chunk_id |-> chunk.id]

\* the descriptors in the opposite order of the sections
build_context_from_chunks_Reversed(chunks_with_scores) ==
    [sections |-> [i \in 1..Len(chunks_with_scores) |->
                      Section(i, chunks_with_scores[i][1],
                              chunks_with_scores[i][2])],
     context_docs |-> [i \in 1..Len(chunks_with_scores) |->
                          Descriptor(chunks_with_scores[
                              Len(chunks_with_scores) + 1 - i][1])]]

\* sections: the blocks the separator of line 163 joins into context_text
build_context_from_chunks(chunks_with_scores) ==
    [sections |-> [i \in 1..Len(chunks_with_scores) |->
                      Section(i, chunks_with_scores[i][1],
                              chunks_with_scores[i][2])],
     context_docs |-> [i \in 1..Len(chunks_with_scores) |->
                          Descriptor(chunks_with_scores[i][1])]]

\* What the chat model sends back.  kind: "text" is not JSON, "json" is JSON
\* that is no object, "object" is a JSON object with the three keys present
\* or not, "api_error" is a failed call (no key, transport).
AnswerFields == {"absent", "string"}
EscalateFields == {"absent", "true", "false", "string"}
ConfidenceFields ==
    {[t |-> "absent", v |-> 0], [t |-> "string", v |-> 0], [t |-> "null", v |-> 0],
     [t |-> "numstring", v |-> 30]}
    \cup {[t |-> "number", v |-> n] : n \in {-10, 54, 55, 100, 150}}

NoFields == [answer |-> "absent", escalate |-> "absent",
             confidence |-> [t |-> "absent", v |-> 0]]

Raws ==
    {[kind |-> k, fields |-> NoFields] : k \in {"text", "json", "api_error"}}
    \cup {[kind |-> "object",
           fields |-> [answer |-> a, escalate |-> e, confidence |-> c]] :
             a \in AnswerFields, e \in EscalateFields, c \in ConfidenceFields}

NoRaw == [kind |-> "none", fields |-> NoFields]

\* bool(x) of a JSON value
Truthy(e) == e \in {"true", "string"}

\* float(x) raises for None and for a string that is no number
FloatRaises(c) == c.t \in {"string", "null"}

float(c) == IF c.t = "absent" THEN DEFAULT_CONFIDENCE ELSE c.v

\* json.loads(raw) raises, or data has no .get, or float() raises
ParseFails(raw) == raw.kind # "object" \/ FloatRaises(raw.fields.confidence)

\* lines 280-283: the three values read from the parsed object
Parsed(raw) ==
    [answer |-> IF raw.fields.answer = "absent" THEN "raw" ELSE "field",
     escalate |-> Truthy(raw.fields.escalate),
     confidence |-> float(raw.fields.confidence)]

\* a fallback that resets the confidence only
Fallback_ConfidenceOnly(raw) ==
    [answer |-> Parsed(raw).answer, escalate |-> Parsed(raw).escalate,
     confidence |-> DEFAULT_CONFIDENCE]

\* lines 284-289: answer "raw" is the whole response text
Fallback(raw) ==
    [answer |-> "raw", escalate |-> FALSE, confidence |-> DEFAULT_CONFIDENCE]

\* the model's flag taken as it is
ThresholdOverride_Off(escalate, confidence) == escalate

\* lines 295-296
ThresholdOverride(escalate, confidence) ==
    IF confidence < ESCALATION_CONFIDENCE_THRESHOLD THEN TRUE ELSE escalate

NoLLM == [status |-> "none", answer |-> "none",
          escalate_to_human |-> FALSE, confidence |-> 0]

call_llm_with_rag(raw) ==
    LET r == IF ParseFails(raw) THEN Fallback(raw) ELSE Parsed(raw)
    IN  IF raw.kind = "api_error"
        THEN [NoLLM EXCEPT !.status = "raised"]
        ELSE [status |-> "returned", answer |-> r.answer,
              escalate_to_human |-> ThresholdOverride(r.escalate, r.confidence),
              confidence |-> r.confidence]

\* the outcome of a turn: what answer_with_rag returns, with the calls made
Turn(status, got, llm_calls, raw, llm_result, answer, escalate, docs) ==
    [status |-> status, retrieved |-> got, llm_calls |-> llm_calls,
     raw |-> raw, llm_result |-> llm_result, answer |-> answer,
     escalate_to_human |-> escalate, context_docs |-> docs]

\* answer_with_rag without the test of line 332
answer_with_rag_AlwaysGenerates(idx, rows, user_query, predict, raw, encode_ok) ==
    LET got == retrieve_relevant_chunks(idx, rows, user_query, TOP_K_RETRIEVER,
                                        predict, encode_ok)
        llm_result == call_llm_with_rag(raw)
    IN  IF got.status = "raised"
        THEN Turn("raised", got, 0, NoRaw, NoLLM, "none", FALSE, <<>>)
        ELSE IF llm_result.status = "raised"
        THEN Turn("raised", got, 1, raw, llm_result, "none", FALSE, <<>>)
        ELSE Turn("returned", got, 1, raw, llm_result, llm_result.answer,
                  llm_result.escalate_to_human,
                  build_context_from_chunks(got.final).context_docs)

answer_with_rag(idx, rows, user_query, predict, raw, encode_ok) ==
    LET got == retrieve_relevant_chunks(idx, rows, user_query, TOP_K_RETRIEVER,
                                        predict, encode_ok)
        llm_result == call_llm_with_rag(raw)
    IN  IF got.status = "raised"
        THEN Turn("raised", got, 0, NoRaw, NoLLM, "none", FALSE, <<>>)
        ELSE IF got.final = <<>>
        THEN Turn("returned", got, 0, NoRaw, NoLLM, "hard_escalation", TRUE, <<>>)
        ELSE IF llm_result.status = "raised"
        THEN Turn("raised", got, 1, raw, llm_result, "none", FALSE, <<>>)
        ELSE Turn("returned", got, 1, raw, llm_result, llm_result.answer,
                  llm_result.escalate_to_human,
                  build_context_from_chunks(got.final).context_docs)

(***************************************************************************)
(* ingestion_service.py                                                     *)
(***************************************************************************)
\* the id of a new row: Column(Integer, primary_key=True) is the rowid of
\* the table, one more than the largest id in the table
NextId(ids) == IF ids = {} THEN 1 ELSE Max(ids) + 1

\* the ids taken from the position of a chunk in its document
ChunkIds_ChunkIndex(chunk_rows) ==
    [i \in 1..Len(chunk_rows) |-> chunk_rows[i].chunk_index]

\* line 221: chunk_ids = [ch.id for ch in chunk_rows]
ChunkIds(chunk_rows) == [i \in 1..Len(chunk_rows) |-> chunk_rows[i].id]

RECURSIVE ingest_uploaded_files(_, _, _)
\* st: the stores and the list of created document ids; files: for each
\* upload the chunk texts split_by_chars makes of it; encode_ok: the
\* embedding model runs (get_embeddings raises when it cannot)
ingest_uploaded_files(st, files, encode_ok) ==
    IF files = <<>> THEN st
    ELSE LET doc_id == NextId(st.documents)
             texts == files[1]
             first_id == NextId({st.chunks[i].id : i \in 1..Len(st.chunks)})
             chunk_rows == [i \in 1..Len(texts) |->
                              [id |-> first_id + i - 1, document_id |-> doc_id,
                               chunk_index |-> i - 1, content |-> texts[i]]]
             committed == [st EXCEPT !.documents = st.documents \cup {doc_id},
                                     !.chunks = st.chunks \o chunk_rows]
             embeddings == get_embeddings([i \in 1..Len(chunk_rows) |->
                                              chunk_rows[i].content])
             inited == IF embeddings # <<>>
                       THEN init_index(st._index, st._embedding_dim, st.disk,
                                       Len(embeddings[1]))
                       ELSE [_index |-> st._index,
                             _embedding_dim |-> st._embedding_dim]
             added == add_embeddings(inited._index, inited._embedding_dim,
                                     st.disk, ChunkIds(chunk_rows), embeddings)
             after == [committed EXCEPT !.status = added.status,
                                        !._index = added._index,
                                        !._embedding_dim = added._embedding_dim,
                                        !.disk = added.disk]
         IN  IF texts = <<>>
             THEN ingest_uploaded_files(
                      [st EXCEPT !.documents = st.documents \cup {doc_id}],
                      Tail(files), encode_ok)
             ELSE IF ~encode_ok
             THEN [committed EXCEPT !.status = "raised"]
             ELSE IF added.status = "raised"
             THEN after
             ELSE ingest_uploaded_files(
                      [after EXCEPT !.created = Append(st.created, doc_id)],
                      Tail(files), encode_ok)

(***************************************************************************)
(* Operations on the index, as the ingestion and the chat services and a    *)
(* process restart drive them                                               *)
(***************************************************************************)
\* no answer_with_rag call is running
NoResult == [context_docs |-> <<>>, answer |-> "none",
             escalate_to_human |-> FALSE]

NoTurn == [pc |-> "idle", query |-> 0, embeds |-> 0, searches |-> 0,
           reranks |-> 0, llm_calls |-> 0, candidates |-> <<>>,
           chunk_by_id |-> <<>>, final |-> <<>>, result |-> NoResult]

\* the callers of add_embeddings that run side by side
\* no SupervisorAgent has been constructed
NoSupervisor == [status |-> "none", args |-> {}]

Requests == {1, 2}

NoRequest == [pc |-> "idle", chunk_ids |-> <<>>, embeddings |-> <<>>]

Init ==
    /\ _index = NoIndex
    /\ _embedding_dim = NoDim
    /\ disk = NoIndex
    /\ documents = {}
    /\ chunks = <<>>
    /\ last = [op |-> "start"]
    /\ turn = NoTurn
    /\ requests = [r \in Requests |-> NoRequest]
    /\ conversations = <<>>
    /\ messages = <<>>
    /\ supervisor = NoSupervisor

InitIndex(embedding_dim) ==
    LET st == init_index(_index, _embedding_dim, disk, embedding_dim)
    IN  /\ _index' = st._index
        /\ _embedding_dim' = st._embedding_dim
        /\ last' = [op |-> "init_index", dim |-> embedding_dim,
                    was_init |-> _index.exists, had_file |-> disk.exists]
        /\ UNCHANGED <<disk, documents, chunks, inflight, chat_log, supervisor>>

AddEmbeddings(chunk_ids, embeddings) ==
    LET st == add_embeddings(_index, _embedding_dim, disk, chunk_ids, embeddings)
    IN  /\ ntotal(_index) + Len(embeddings) <= MaxEntries
        /\ ntotal(disk) + Len(embeddings) <= MaxEntries
        /\ _index' = st._index
        /\ _embedding_dim' = st._embedding_dim
        /\ disk' = st.disk
        /\ last' = [op |-> "add_embeddings", ids |-> chunk_ids,
                    vecs |-> embeddings, status |-> st.status,
                    was_init |-> _index.exists]
        /\ UNCHANGED <<documents, chunks, inflight, chat_log, supervisor>>

SearchSimilar(embedding, top_k) ==
    LET r == search_similar(_index, embedding, top_k)
    IN  /\ last' = [op |-> "search_similar", q |-> embedding, k |-> top_k,
                    status |-> r.status, results |-> r.results]
        /\ UNCHANGED <<_index, _embedding_dim, disk, documents, chunks, inflight, chat_log, supervisor>>

\* the process ends (crash, redeploy) and a new one starts: the module
\* globals are None again, the file at INDEX_PATH stays
Restart ==
    /\ _index' = NoIndex
    /\ _embedding_dim' = NoDim
    /\ last' = [op |-> "restart"]
    /\ UNCHANGED <<disk, documents, chunks, inflight, chat_log, supervisor>>

\* the ids of n new chunk rows: primary keys grow by one and are not reused
NewChunkIds(n) ==
    LET used == IF ntotal(_index) >= ntotal(disk)
                THEN ntotal(_index) ELSE ntotal(disk)
    IN  [i \in 1..n |-> used + i]

Next ==
    \/ \E d \in Dims : InitIndex(d)
    \/ \E vs \in SeqsUpTo(Vectors, MaxBatch) : AddEmbeddings(NewChunkIds(Len(vs)), vs)
    \/ \E q \in Vectors, k \in 1..MaxK : SearchSimilar(q, k)
    \/ Restart

Spec == Init /\ [][Next]_vars

(***************************************************************************)
(* The chat and the ingestion services                                      *)
(***************************************************************************)

\* the uploads of the retrieval and answer specifications, each the chunk
\* texts of one file
Uploads == {<<0>>, <<1, 0>>}

\* the cross-encoder of the answer specification scores a text by itself
AnswerPredictors == {[t \in Texts |-> t]}

\* an upload whose embedding model runs or fails
IngestOrFail(files, encode_ok, cap) ==
    \E st \in {ingest_uploaded_files(
                   [status |-> "returned", _index |-> _index,
                    _embedding_dim |-> _embedding_dim, disk |-> disk,
                    documents |-> documents, chunks |-> chunks,
                    created |-> <<>>], files, encode_ok)} :
        /\ Len(st.chunks) <= cap
        /\ ntotal(st._index) <= cap
        /\ _index' = st._index
        /\ _embedding_dim' = st._embedding_dim
        /\ disk' = st.disk
        /\ documents' = st.documents
        /\ chunks' = st.chunks
        /\ last' = [op |-> "ingest_uploaded_files", status |-> st.status,
                    created |-> st.created]
        /\ UNCHANGED <<inflight, chat_log, supervisor>>

\* an upload whose embedding model runs
Ingest(files, cap) == IngestOrFail(files, TRUE, cap)

\* a document row is deleted in the database (no endpoint does it): the
\* cascade of the chunks relationship deletes its chunk rows with it, and
\* the index keeps their entries
DeleteDocument(doc_id) ==
    LET Kept(row) == row.document_id # doc_id
    IN  /\ doc_id \in documents
        /\ documents' = documents \ {doc_id}
        /\ chunks' = SelectSeq(chunks, Kept)
        /\ last' = [op |-> "delete_document", doc_id |-> doc_id]
        /\ UNCHANGED <<_index, _embedding_dim, disk, inflight, chat_log, supervisor>>

\* the query of line 80 has no ORDER BY: the rows come in the order of the
\* table, in the opposite one, or in another
StorageOrders == {"rowid", "reverse", "rotated"}

Reverse(s) == [i \in 1..Len(s) |-> s[Len(s) + 1 - i]]

InStorageOrder(rows, order) ==
    CASE order = "rowid" -> rows
      [] order = "reverse" -> Reverse(rows)
      [] OTHER -> IF rows = <<>> THEN rows ELSE Append(Tail(rows), rows[1])

Retrieve(query, predict, order) ==
    \E got \in {retrieve_relevant_chunks(_index,
                                         InStorageOrder(chunks, order), query,
                                         TOP_K_RETRIEVER, predict, TRUE)} :
        /\ last' = [op |-> "retrieve_relevant_chunks", query |-> query,
                    order |-> order,
                    status |-> got.status, reranks |-> got.reranks,
                    predict |-> IF got.reranks = 0
                                THEN [t \in Texts |-> 0] ELSE predict,
                    candidates |-> got.candidates, final |-> got.final]
        /\ UNCHANGED <<_index, _embedding_dim, disk, documents, chunks, inflight, chat_log, supervisor>>

AnswerWithRag(user_query, predict, raw, encode_ok) ==
    \E res \in {answer_with_rag(_index, chunks, user_query, predict, raw,
                                encode_ok)} :
        /\ last' = [op |-> "answer_with_rag", query |-> user_query,
                    status |-> res.status,
                    embeds |-> res.retrieved.embeds,
                    searches |-> res.retrieved.searches,
                    reranks |-> res.retrieved.reranks,
                    final |-> res.retrieved.final,
                    llm_calls |-> res.llm_calls,
                    raw |-> res.raw,
                    llm_result |-> res.llm_result,
                    result |-> [answer |-> res.answer,
                                escalate_to_human |-> res.escalate_to_human,
                                context_docs |-> res.context_docs]]
        /\ UNCHANGED <<_index, _embedding_dim, disk, documents, chunks, inflight, chat_log, supervisor>>

NextRetrieve ==
    \/ \E file \in Uploads : Ingest(<<file>>, MaxChunks)
    \/ \E query \in Texts, predict \in Predictors, order \in StorageOrders :
          Retrieve(query, predict, order)
    \/ Restart

SpecRetrieve == Init /\ [][NextRetrieve]_vars

\* uploads, some of which fail in the embedding model
NextIngest ==
    \/ \E file \in Uploads, encode_ok \in BOOLEAN :
          IngestOrFail(<<file>>, encode_ok, MaxIngestChunks)
    \/ Restart

SpecIngest == Init /\ [][NextIngest]_vars

(***************************************************************************)
(* docs_router.py: POST /docs/upload                                        *)
(***************************************************************************)
\* the chunk texts split_by_chars makes of an uploaded file; <<>> is a
\* file whose text yields no chunk
UploadTexts == {<<>>, <<0>>, <<1, 0>>}

\* a variant that answers 200 whatever ingestion returns
upload_docs_AlwaysOk(st, files, encode_ok) ==
    [st |-> ingest_uploaded_files(st, files, encode_ok), http |-> 200,
     detail |-> "ingested"]

\* upload_docs: an exception of ingestion leaves the handler and the
\* framework answers 500
upload_docs(st, files, encode_ok) ==
    IF files = <<>>
    THEN [st |-> st, http |-> 400, detail |-> "no_files"]
    ELSE LET after == ingest_uploaded_files(st, files, encode_ok)
         IN  IF after.status = "raised"
             THEN [st |-> after, http |-> 500, detail |-> "raised"]
             ELSE IF after.created = <<>>
             THEN [st |-> after, http |-> 400, detail |-> "no_valid_text"]
             ELSE [st |-> after, http |-> 200, detail |-> "ingested"]

UploadDocs(files, encode_ok) ==
    \E res \in {upload_docs([status |-> "returned", _index |-> _index,
                             _embedding_dim |-> _embedding_dim,
                             disk |-> disk, documents |-> documents,
                             chunks |-> chunks, created |-> <<>>],
                            files, encode_ok)} :
        /\ Len(res.st.chunks) <= MaxUploadChunks
        /\ Cardinality(res.st.documents) <= MaxUploadDocs
        /\ _index' = res.st._index
        /\ _embedding_dim' = res.st._embedding_dim
        /\ disk' = res.st.disk
        /\ documents' = res.st.documents
        /\ chunks' = res.st.chunks
        /\ last' = [op |-> "upload_docs", files |-> files,
                    status |-> res.st.status, http |-> res.http,
                    detail |-> res.detail, document_ids |-> res.st.created]
        /\ UNCHANGED <<inflight, chat_log, supervisor>>

NextUpload ==
    \/ \E files \in SeqsUpTo(UploadTexts, 2), encode_ok \in BOOLEAN :
          UploadDocs(files, encode_ok)
    \/ Restart

SpecUpload == Init /\ [][NextUpload]_vars

\* retrieval over a database whose documents are deleted
NextOrphans ==
    \/ \E file \in Uploads : Ingest(<<file>>, MaxOrphanEntries)
    \/ \E doc_id \in documents : DeleteDocument(doc_id)
    \/ \E query \in Texts, predict \in Predictors, order \in StorageOrders :
          Retrieve(query, predict, order)
    \/ Restart

SpecOrphans == Init /\ [][NextOrphans]_vars

NextAnswer ==
    \/ \E file \in Uploads : Ingest(<<file>>, MaxAnswerChunks)
    \/ \E query \in Texts, predict \in AnswerPredictors, raw \in Raws,
          encode_ok \in BOOLEAN :
          AnswerWithRag(query, predict, raw, encode_ok)
    \/ Restart

SpecAnswer == Init /\ [][NextAnswer]_vars

(***************************************************************************)
(* conversation_service.py, chat_router.py                                  *)
(***************************************************************************)

\* the empty string as a message, and as a session id
EmptyText == -1
NoSession == 0

Sessions == {1, 2}

get_or_create_conversation(convs, session_id) ==
    IF \E i \in 1..Len(convs) : convs[i] = session_id
    THEN [conversations |-> convs,
          id |-> CHOOSE i \in 1..Len(convs) : convs[i] = session_id]
    ELSE [conversations |-> Append(convs, session_id), id |-> Len(convs) + 1]

\* a variant that stores every message with role "user"
add_message_AsUser(msgs, conversation_id, role, content) ==
    Append(msgs, [conversation_id |-> conversation_id, role |-> "user",
                  content |-> content])

add_message(msgs, conversation_id, role, content) ==
    Append(msgs, [conversation_id |-> conversation_id, role |-> role,
                  content |-> content])

\* order_by(Message.id.asc()).limit(last_n)
get_history(msgs, conversation_id, last_n) ==
    LET Mine(m) == m.conversation_id = conversation_id
        mine == SelectSeq(msgs, Mine)
    IN  [i \in 1..Min(last_n, Len(mine)) |->
            [role |-> mine[i].role, content |-> mine[i].content]]

\* the responses of the chat model in the chat specification
ChatRaws ==
    {[kind |-> "text", fields |-> NoFields],
     [kind |-> "api_error", fields |-> NoFields],
     [kind |-> "object",
      fields |-> [answer |-> "string", escalate |-> "false",
                  confidence |-> [t |-> "number", v |-> 100]]],
     [kind |-> "object",
      fields |-> [answer |-> "string", escalate |-> "true",
                  confidence |-> [t |-> "number", v |-> 54]]]}

\* POST /chat.  An exception that leaves the handler is answered by the
\* framework with status 500: neither chat_router.py nor main.py catches it
chat(session_id, user_msg, predict, raw, encode_ok, order) ==
    IF session_id = NoSession \/ user_msg = EmptyText
    THEN /\ last' = [op |-> "chat", session_id |-> session_id,
                     message |-> user_msg, pipeline |-> "not_run",
                     http |-> 400, history |-> <<>>, response |-> NoResult]
         /\ UNCHANGED <<_index, _embedding_dim, disk, documents, chunks,
                        inflight, chat_log, supervisor>>
    ELSE \E conv \in {get_or_create_conversation(conversations, session_id)} :
         \E with_user \in {add_message(messages, conv.id, "user", user_msg)} :
         \E res \in {answer_with_rag(_index, InStorageOrder(chunks, order),
                                     user_msg, predict, raw, encode_ok)} :
             /\ conversations' = conv.conversations
             /\ messages' = IF res.status = "raised"
                            THEN with_user
                            ELSE add_message(with_user, conv.id, "assistant",
                                             res.answer)
             /\ last' = [op |-> "chat", session_id |-> session_id,
                         message |-> user_msg, pipeline |-> res.status,
                         http |-> IF res.status = "raised" THEN 500 ELSE 200,
                         history |-> get_history(with_user, conv.id, 10),
                         response |->
                            IF res.status = "raised" THEN NoResult
                            ELSE [answer |-> res.answer,
                                  escalate_to_human |-> res.escalate_to_human,
                                  context_docs |-> res.context_docs]]
             /\ UNCHANGED <<_index, _embedding_dim, disk, documents, chunks,
                            inflight, supervisor>>

NextChat ==
    \/ \E file \in Uploads : Ingest(<<file>>, MaxAnswerChunks)
    \/ \E session_id \in Sessions \cup {NoSession},
          user_msg \in Texts \cup {EmptyText},
          predict \in AnswerPredictors, raw \in ChatRaws,
          encode_ok \in BOOLEAN, order \in StorageOrders :
          /\ Len(messages) + 2 <= MaxMessages
          /\ chat(session_id, user_msg, predict, raw, encode_ok, order)
    \/ Restart

SpecChat == Init /\ [][NextChat]_vars

\* chat requests alone, on an empty knowledge base, until the conversation
\* of a session is longer than the history the endpoint asks for
NextHistory ==
    \E session_id \in Sessions, user_msg \in Texts,
       predict \in AnswerPredictors :
       /\ Len(messages) + 2 <= MaxHistoryMessages
       /\ chat(session_id, user_msg, predict, NoRaw, TRUE, "rowid")

SpecHistory == Init /\ [][NextHistory]_vars

\* answers over a database whose documents are deleted
NextAnswerOrphans ==
    \/ \E file \in Uploads : Ingest(<<file>>, MaxOrphanEntries)
    \/ \E doc_id \in documents : DeleteDocument(doc_id)
    \/ \E query \in Texts, predict \in AnswerPredictors, raw \in ChatRaws :
          AnswerWithRag(query, predict, raw, TRUE)
    \/ Restart

SpecAnswerOrphans == Init /\ [][NextAnswerOrphans]_vars

(***************************************************************************)
(* analytics_router.py: GET /analytics/summary                              *)
(***************************************************************************)
\* round(num / den, 0) for den > 0: the nearest integer, the even one of
\* two that are equally near
RoundHalfEven(num, den) ==
    LET q == num \div den
        r == num % den
    IN  IF 2 * r < den THEN q
        ELSE IF 2 * r > den THEN q + 1
        ELSE IF q % 2 = 0 THEN q ELSE q + 1

\* the assistant messages whose content matches ilike("%escalate%human%"):
\* the hard-escalation answer of answer_with_rag does ("Please escalate
\* this to a human support agent."), and those of the answers written by
\* the chat model whose text does, llm_matching
Escalated(msgs, llm_matching) ==
    {i \in 1..Len(msgs) :
        /\ msgs[i].role = "assistant"
        /\ msgs[i].content = "hard_escalation" \/ i \in llm_matching}

\* analytics_summary; resolution_rate is in hundredths of a percent
analytics_summary(convs, msgs, llm_matching) ==
    LET total_conversations == Len(convs)
        escalated == Cardinality(Escalated(msgs, llm_matching))
    IN  [total_conversations |-> total_conversations,
         total_messages |-> Len(msgs),
         escalated_conversations |-> escalated,
         resolution_rate |->
            IF total_conversations = 0 THEN 0
            ELSE RoundHalfEven(10000 * (total_conversations - escalated),
                               total_conversations)]

\* the assistant messages written by the chat model
LlmAnswers ==
    {i \in 1..Len(messages) :
        /\ messages[i].role = "assistant"
        /\ messages[i].content # "hard_escalation"}

AnalyticsSummary(llm_matching) ==
    /\ last' = [op |-> "analytics_summary",
                summary |-> analytics_summary(conversations, messages,
                                              llm_matching)]
    /\ UNCHANGED <<_index, _embedding_dim, disk, documents, chunks, inflight,
                   chat_log, supervisor>>

NextAnalytics ==
    \/ \E file \in Uploads : Ingest(<<file>>, MaxAnswerChunks)
    \/ \E session_id \in Sessions, user_msg \in Texts,
          predict \in AnswerPredictors, raw \in ChatRaws :
          /\ Len(messages) + 2 <= MaxMessages
          /\ chat(session_id, user_msg, predict, raw, TRUE, "rowid")
    \/ \E llm_matching \in SUBSET LlmAnswers : AnalyticsSummary(llm_matching)

SpecAnalytics == Init /\ [][NextAnalytics]_vars

(***************************************************************************)
(* One answer_with_rag call, from one outside call to the next              *)
(***************************************************************************)

\* the positions at which no call is running: before the first turn and
\* after a turn has ended
Resting == {"idle", "ESCALATED_NO_CONTEXT", "DONE", "ERROR"}

\* chat_service.py lines 333-340
HardEscalation == [context_docs |-> <<>>, answer |-> "hard_escalation",
                   escalate_to_human |-> TRUE]

\* answer_with_rag is called
Receive(user_query) ==
    /\ turn.pc \in Resting
    /\ turn' = [NoTurn EXCEPT !.pc = "embed", !.query = user_query]
    /\ UNCHANGED <<_index, _embedding_dim, disk, documents, chunks, last,
                   requests, chat_log, supervisor>>

\* line 67: an exception of get_embedding leaves retrieve_relevant_chunks
\* and answer_with_rag
Embed(encode_ok) ==
    /\ turn.pc = "embed"
    /\ turn' = [turn EXCEPT !.embeds = @ + 1,
                            !.pc = IF encode_ok THEN "search" ELSE "ERROR"]
    /\ UNCHANGED <<_index, _embedding_dim, disk, documents, chunks, last,
                   requests, chat_log, supervisor>>

\* lines 70-98, and 332-340 for the empty list
Search(order) ==
    /\ turn.pc = "search"
    /\ \E found \in {search_similar(_index, get_embedding(turn.query),
                                     TOP_K_RETRIEVER)} :
       \E chunk_ids \in {[i \in 1..Len(found.results) |->
                             found.results[i][1]]} :
       \E by_id \in {chunk_by_id(fetch(InStorageOrder(chunks, order),
                                       chunk_ids))} :
       \E candidates \in {Candidates(by_id, found.results)} :
           turn' = IF found.status = "raised"
                   THEN [turn EXCEPT !.searches = @ + 1, !.pc = "ERROR"]
                   ELSE IF candidates = <<>>
                   THEN [turn EXCEPT !.searches = @ + 1,
                                     !.pc = "ESCALATED_NO_CONTEXT",
                                     !.result = HardEscalation]
                   ELSE [turn EXCEPT !.searches = @ + 1, !.pc = "rerank",
                                     !.candidates = candidates,
                                     !.chunk_by_id = by_id]
    /\ UNCHANGED <<_index, _embedding_dim, disk, documents, chunks, last,
                   requests, chat_log, supervisor>>

\* lines 106-124, and 332-340 for the empty list
Rerank(predict) ==
    /\ turn.pc = "rerank"
    /\ \E reranked \in {rerank_chunks(predict, turn.candidates,
                                       TOP_K_RERANK)} :
       \E final \in {[i \in 1..Len(reranked) |->
                        <<turn.chunk_by_id[reranked[i][1]], reranked[i][3]>>]} :
           turn' = IF final = <<>>
                   THEN [turn EXCEPT !.reranks = @ + 1,
                                     !.pc = "ESCALATED_NO_CONTEXT",
                                     !.result = HardEscalation]
                   ELSE [turn EXCEPT !.reranks = @ + 1, !.pc = "generate",
                                     !.final = final]
    /\ UNCHANGED <<_index, _embedding_dim, disk, documents, chunks, last,
                   requests, chat_log, supervisor>>

\* a generation call that failed is made once more
Generate_Retries(raw) ==
    /\ turn.pc = "generate"
    /\ \E llm_result \in {call_llm_with_rag(raw)} :
           turn' = IF llm_result.status = "raised"
                   THEN [turn EXCEPT !.llm_calls = @ + 1,
                                     !.pc = IF turn.llm_calls = 0
                                            THEN "generate" ELSE "ERROR"]
                   ELSE [turn EXCEPT
                            !.llm_calls = @ + 1, !.pc = "DONE",
                            !.result =
                               [answer |-> llm_result.answer,
                                escalate_to_human |->
                                    llm_result.escalate_to_human,
                                context_docs |->
                                    build_context_from_chunks(turn.final)
                                        .context_docs]]
    /\ UNCHANGED <<_index, _embedding_dim, disk, documents, chunks, last,
                   requests, chat_log, supervisor>>

\* lines 343-360: the context, the one call of call_llm_with_rag, the result
Generate(raw) ==
    /\ turn.pc = "generate"
    /\ \E llm_result \in {call_llm_with_rag(raw)} :
           turn' = IF llm_result.status = "raised"
                   THEN [turn EXCEPT !.llm_calls = @ + 1, !.pc = "ERROR"]
                   ELSE [turn EXCEPT
                            !.llm_calls = @ + 1, !.pc = "DONE",
                            !.result =
                               [answer |-> llm_result.answer,
                                escalate_to_human |->
                                    llm_result.escalate_to_human,
                                context_docs |->
                                    build_context_from_chunks(turn.final)
                                        .context_docs]]
    /\ UNCHANGED <<_index, _embedding_dim, disk, documents, chunks, last,
                   requests, chat_log, supervisor>>

\* the steps of a turn that is running
TurnStep ==
    \/ \E encode_ok \in BOOLEAN : Embed(encode_ok)
    \/ \E order \in StorageOrders : Search(order)
    \/ \E predict \in AnswerPredictors : Rerank(predict)
    \/ \E raw \in Raws : Generate(raw)

\* the handlers are coroutines without an await in the pipeline: an upload
\* runs between two turns, not within one
NextTurn ==
    \/ \E file \in Uploads :
          turn.pc \in Resting /\ Ingest(<<file>>, MaxTurnChunks)
    \/ \E user_query \in Texts : Receive(user_query)
    \/ TurnStep

SpecTurn == Init /\ [][NextTurn]_vars

\* every statement of the handler is executed once it is reached, and
\* every outside call returns or raises
FairSpecTurn == SpecTurn /\ WF_vars(TurnStep)

(***************************************************************************)
(* add_embeddings called by several requests at once, statement by         *)
(* statement (vector_store_service.py lines 56-138).  Every statement reads *)
(* and writes the module globals _index and _embedding_dim and the file at  *)
(* INDEX_PATH as they are when it runs.                                     *)
(***************************************************************************)

\* what a statement of add_embeddings leaves alone
beside_index == <<documents, chunks, last, turn, chat_log, supervisor>>

\* no add_embeddings call is running
Quiet == \A r \in Requests : requests[r].pc \in {"idle", "returned", "raised"}

\* the ids the index, the file and the calls hold
UsedIds ==
    IndexIdsOf(_index) \cup IndexIdsOf(disk)
    \cup UNION {{requests[r].chunk_ids[i] : i \in 1..Len(requests[r].chunk_ids)} :
                   r \in Requests}

\* request r moves to position pc
Goto(r, pc) == requests' = [requests EXCEPT ![r].pc = pc]

\* add_embeddings(chunk_ids, embeddings) is called with the id of a chunk
\* row committed before and its embedding
Call(r, vec) ==
    /\ requests[r].pc \in {"idle", "returned", "raised"}
    /\ Cardinality(UsedIds) < MaxConcEntries
    /\ requests' = [requests EXCEPT ![r] = [pc |-> "add_if_index_none",
                                            chunk_ids |-> <<NextId(UsedIds)>>,
                                            embeddings |-> <<vec>>]]
    /\ UNCHANGED <<_index, _embedding_dim, disk, beside_index>>

\* line 133: if _index is None
AddIfIndexNone(r) ==
    /\ requests[r].pc = "add_if_index_none"
    /\ Goto(r, IF _index.exists THEN "add_with_ids" ELSE "init_if_index")
    /\ UNCHANGED <<_index, _embedding_dim, disk, beside_index>>

\* line 92: if _index is not None: return
InitIfIndex(r) ==
    /\ requests[r].pc = "init_if_index"
    /\ Goto(r, IF _index.exists THEN "add_with_ids" ELSE "init_if_file")
    /\ UNCHANGED <<_index, _embedding_dim, disk, beside_index>>

\* line 94: if os.path.exists(INDEX_PATH)
InitIfFile(r) ==
    /\ requests[r].pc = "init_if_file"
    /\ Goto(r, IF disk.exists THEN "load_if_file" ELSE "create_dim")
    /\ UNCHANGED <<_index, _embedding_dim, disk, beside_index>>

\* lines 75 and 78-79: the test of _load_index and its else branch
LoadIfFile(r) ==
    /\ requests[r].pc = "load_if_file"
    /\ IF disk.exists
       THEN Goto(r, "load_read") /\ UNCHANGED <<_index, _embedding_dim>>
       ELSE /\ Goto(r, "add_with_ids")
            /\ _index' = NoIndex
            /\ _embedding_dim' = NoDim
    /\ UNCHANGED <<disk, beside_index>>

\* line 76: _index = faiss.read_index(INDEX_PATH)
LoadRead(r) ==
    /\ requests[r].pc = "load_read"
    /\ Goto(r, "load_dim")
    /\ _index' = disk
    /\ UNCHANGED <<_embedding_dim, disk, beside_index>>

\* line 77: _embedding_dim = _index.d
LoadDim(r) ==
    /\ requests[r].pc = "load_dim"
    /\ Goto(r, "add_with_ids")
    /\ _embedding_dim' = _index.d
    /\ UNCHANGED <<_index, disk, beside_index>>

\* line 58: _embedding_dim = embedding_dim
CreateDim(r) ==
    /\ requests[r].pc = "create_dim"
    /\ Goto(r, "create_index")
    /\ _embedding_dim' = Len(requests[r].embeddings[1])
    /\ UNCHANGED <<_index, disk, beside_index>>

\* lines 59-60: _index = faiss.IndexIDMap2(base_index), an empty index
CreateIndex(r) ==
    /\ requests[r].pc = "create_index"
    /\ Goto(r, "add_with_ids")
    /\ _index' = _create_new_index(Len(requests[r].embeddings[1]))._index
    /\ UNCHANGED <<_embedding_dim, disk, beside_index>>

\* line 136: _index.add_with_ids(vecs, ids)
AddWithIds(r) ==
    /\ requests[r].pc = "add_with_ids"
    /\ IF _index.exists
          /\ add_with_ids_ok(_index, requests[r].chunk_ids,
                             requests[r].embeddings)
       THEN /\ Goto(r, "save_index")
            /\ _index' = add_with_ids(_index, requests[r].chunk_ids,
                                      requests[r].embeddings)
       ELSE Goto(r, "raised") /\ UNCHANGED _index
    /\ UNCHANGED <<_embedding_dim, disk, beside_index>>

\* lines 106-107: save_index, after which add_embeddings returns
SaveIndex(r) ==
    /\ requests[r].pc = "save_index"
    /\ Goto(r, "returned")
    /\ disk' = save_index(_index, disk)
    /\ UNCHANGED <<_index, _embedding_dim, beside_index>>

\* the process ends while no call is running, and a new one starts
RestartWhenQuiet ==
    /\ Quiet
    /\ _index' = NoIndex
    /\ _embedding_dim' = NoDim
    /\ requests' = [r \in Requests |-> NoRequest]
    /\ UNCHANGED <<disk, beside_index>>

NextConcurrent ==
    \/ \E r \in Requests, vec \in {<<0>>, <<1>>} : Call(r, vec)
    \/ \E r \in Requests : AddIfIndexNone(r)
    \/ \E r \in Requests : InitIfIndex(r)
    \/ \E r \in Requests : InitIfFile(r)
    \/ \E r \in Requests : LoadIfFile(r)
    \/ \E r \in Requests : LoadRead(r)
    \/ \E r \in Requests : LoadDim(r)
    \/ \E r \in Requests : CreateDim(r)
    \/ \E r \in Requests : CreateIndex(r)
    \/ \E r \in Requests : AddWithIds(r)
    \/ \E r \in Requests : SaveIndex(r)
    \/ RestartWhenQuiet

SpecConcurrent == Init /\ [][NextConcurrent]_vars

\* build_context_from_chunks over every list of ranked results: chunks of
\* two documents, each with a rerank score
RankedResults ==
    {<<[id |-> i, document_id |-> d, chunk_index |-> 0, content |-> i % 2],
       score>> : i \in 1..3, d \in 1..2, score \in {0, 1}}

InitContext ==
    /\ _index = NoIndex
    /\ _embedding_dim = NoDim
    /\ disk = NoIndex
    /\ documents = {}
    /\ chunks = <<>>
    /\ \E l \in SeqsUpTo(RankedResults, MaxRanked) :
          last = [op |-> "ranked", chunks_with_scores |-> l]
    /\ turn = NoTurn
    /\ requests = [r \in Requests |-> NoRequest]
    /\ conversations = <<>>
    /\ messages = <<>>
    /\ supervisor = NoSupervisor

BuildContext ==
    /\ last.op = "ranked"
    /\ \E out \in {build_context_from_chunks(last.chunks_with_scores)} :
          last' = [op |-> "build_context_from_chunks",
                   chunks_with_scores |-> last.chunks_with_scores,
                   sections |-> out.sections,
                   context_docs |-> out.context_docs]
    /\ UNCHANGED <<_index, _embedding_dim, disk, documents, chunks, inflight, chat_log, supervisor>>

NextContext == BuildContext

SpecContext == InitContext /\ [][NextContext]_vars

(***************************************************************************)
(* app/agents/supervisor.py: the supervisor agent.  rag_tool, llm and       *)
(* rewriter are injected objects; the model draws what they return.         *)
(* Confidences are in hundredths.                                           *)
(***************************************************************************)
CONFIDENCE_THRESHOLD == 65

\* the parameters of SupervisorAgent.__init__, none of which has a default
InitParams == {"rag_tool", "llm", "rewriter"}

\* the field confidence of a dict that has no key "confidence"
NoConfidence == -1

\* the dicts rag_tool.run returns in the supervisor specification; answer
\* names the call that produced the dict
RagResult(call, escalate, confidence) ==
    [context_docs |-> <<>>, answer |-> call, confidence |-> confidence,
     escalate_to_human |-> escalate]

RagConfidences == {NoConfidence, 0, 64, 65, 90}

\* result.get("confidence", 0.0)
GetConfidence(result) ==
    IF result.confidence = NoConfidence THEN 0 ELSE result.confidence

_is_confident(result) ==
    IF result.escalate_to_human THEN FALSE
    ELSE GetConfidence(result) >= CONFIDENCE_THRESHOLD

\* a variant that prefers the second result on a tie
_pick_best_SecondOnTie(first, second) ==
    IF GetConfidence(second) >= GetConfidence(first) THEN second ELSE first

_pick_best(first, second) ==
    IF GetConfidence(second) > GetConfidence(first) THEN second ELSE first

\* the labels _classify_intent returns: the reply of the llm, stripped and
\* lower-cased, which may be none of the three labels
Intents == {"knowledge_query", "small_talk", "out_of_scope", "other"}

SmallTalkResult ==
    [context_docs |-> <<>>, answer |-> "small_talk",
     confidence |-> NoConfidence, escalate_to_human |-> FALSE]

OutOfScopeResult ==
    [context_docs |-> <<>>, answer |-> "out_of_scope",
     confidence |-> NoConfidence, escalate_to_human |-> FALSE]

\* a rag_tool.run call that returned a dict
Returned(result) == [status |-> "returned", result |-> result]

\* what one handle call did: queries is the list of queries passed to
\* rag_tool.run, runs the list of dicts it returned, rewrites the number
\* of rewriter.rewrite calls
Handled(status, queries, runs, rewrites, result) ==
    [status |-> status, queries |-> queries, runs |-> runs,
     rewrites |-> rewrites, result |-> result]

\* lines 30-43; run1 and run2 are what rag_tool.run does with user_query
\* and with rewritten, rewrite_ok tells whether rewriter.rewrite returns
RagAttempts(user_query, rewritten, rewrite_ok, run1, run2) ==
    IF run1.status = "raised"
    THEN Handled("raised", <<user_query>>, <<>>, 0, NoResult)
    ELSE IF _is_confident(run1.result)
    THEN Handled("returned", <<user_query>>, <<run1.result>>, 0, run1.result)
    ELSE IF ~rewrite_ok
    THEN Handled("raised", <<user_query>>, <<run1.result>>, 1, NoResult)
    ELSE IF run2.status = "raised"
    THEN Handled("raised", <<user_query, rewritten>>, <<run1.result>>, 1,
                 NoResult)
    ELSE Handled("returned", <<user_query, rewritten>>,
                 <<run1.result, run2.result>>, 1,
                 _pick_best(run1.result, run2.result))

\* a variant without the fixed answers of lines 16-28
handle_NoFixedAnswers(intent, user_query, rewritten, rewrite_ok, run1, run2) ==
    RagAttempts(user_query, rewritten, rewrite_ok, run1, run2)

\* SupervisorAgent.handle
handle(intent, user_query, rewritten, rewrite_ok, run1, run2) ==
    IF intent = "small_talk"
    THEN Handled("returned", <<>>, <<>>, 0, SmallTalkResult)
    ELSE IF intent = "out_of_scope"
    THEN Handled("returned", <<>>, <<>>, 0, OutOfScopeResult)
    ELSE RagAttempts(user_query, rewritten, rewrite_ok, run1, run2)

\* a RAGTool whose dict also carries a confidence
RAGTool_run_WithConfidence(idx, rows, user_query, predict, raw, encode_ok) ==
    \* the dict of answer_with_rag with the confidence of the model's reply
    LET res == answer_with_rag(idx, rows, user_query, predict, raw, encode_ok)
    IN  [status |-> res.status,
         result |-> [answer |-> res.answer,
                     escalate_to_human |-> res.escalate_to_human,
                     context_docs |-> res.context_docs,
                     confidence |-> 100]]

\* rag_tool.py: RAGTool.run returns the dict of answer_with_rag, whose keys
\* are answer, escalate_to_human and context_docs
RAGTool_run(idx, rows, user_query, predict, raw, encode_ok) ==
    LET res == answer_with_rag(idx, rows, user_query, predict, raw, encode_ok)
    IN  [status |-> res.status,
         result |-> [answer |-> res.answer,
                     escalate_to_human |-> res.escalate_to_human,
                     context_docs |-> res.context_docs,
                     confidence |-> NoConfidence]]

\* SupervisorAgent(**args): a call that leaves out a parameter raises
\* TypeError and binds no object
Construct(args) ==
    /\ supervisor' = [status |-> IF args = InitParams THEN "built"
                                 ELSE "raised",
                      args |-> args]
    /\ last' = [op |-> "construct"]
    /\ UNCHANGED <<_index, _embedding_dim, disk, documents, chunks, inflight,
                   chat_log>>

\* what a handle call leaves in last
Record(rag_tool, intent, user_query, rewritten, rewrite_ok, res) ==
    [op |-> "handle", rag_tool |-> rag_tool, intent |-> intent,
     user_query |-> user_query, rewritten |-> rewritten,
     rewrite_ok |-> rewrite_ok, status |-> res.status,
     queries |-> res.queries, runs |-> res.runs, rewrites |-> res.rewrites,
     result |-> res.result]

\* supervisor.handle(user_query, history, db) on the object built before,
\* whose rag_tool returns first a dict with escalate_to_human e1 and
\* confidence c1 and then one with e2 and c2
Handle(intent, user_query, rewritten, rewrite_ok, e1, c1, e2, c2) ==
    /\ supervisor.status = "built"
    /\ \E res \in {handle(intent, user_query, rewritten, rewrite_ok,
                          Returned(RagResult("first", e1, c1)),
                          Returned(RagResult("second", e2, c2)))} :
          last' = Record("injected", intent, user_query, rewritten,
                         rewrite_ok, res)
    /\ UNCHANGED <<_index, _embedding_dim, disk, documents, chunks, inflight,
                   chat_log, supervisor>>

\* supervisor.handle on a supervisor whose rag_tool is a RAGTool; raw1 and
\* raw2 are the replies of the chat model to the two attempts
HandleWithRAGTool(intent, user_query, rewritten, rewrite_ok, predict, raw1, raw2, encode_ok) ==
    /\ supervisor.status = "built"
    /\ \E run1 \in {RAGTool_run(_index, chunks, user_query, predict, raw1,
                                encode_ok)} :
       \E run2 \in {RAGTool_run(_index, chunks, rewritten, predict, raw2,
                                encode_ok)} :
       \E res \in {handle(intent, user_query, rewritten, rewrite_ok,
                          run1, run2)} :
          last' = Record("RAGTool", intent, user_query, rewritten,
                         rewrite_ok, res)
    /\ UNCHANGED <<_index, _embedding_dim, disk, documents, chunks, inflight,
                   chat_log, supervisor>>

NextSupervisor ==
    \/ \E args \in SUBSET InitParams : Construct(args)
    \/ \E intent \in Intents, user_query, rewritten \in Texts,
          rewrite_ok \in BOOLEAN,
          e1, e2 \in BOOLEAN, c1, c2 \in RagConfidences :
          Handle(intent, user_query, rewritten, rewrite_ok, e1, c1, e2, c2)

SpecSupervisor == Init /\ [][NextSupervisor]_vars

NextSupervisorRag ==
    \/ Construct(InitParams)
    \/ \E file \in Uploads : Ingest(<<file>>, MaxAnswerChunks)
    \/ \E intent \in {"knowledge_query", "small_talk"},
          user_query, rewritten \in Texts,
          rewrite_ok \in BOOLEAN, predict \in AnswerPredictors,
          raw1, raw2 \in ChatRaws, encode_ok \in BOOLEAN :
          HandleWithRAGTool(intent, user_query, rewritten, rewrite_ok,
                            predict, raw1, raw2, encode_ok)

SpecSupervisorRag == Init /\ [][NextSupervisorRag]_vars

(***************************************************************************)
(* utils/chunking.py: split_by_chars, one loop iteration at a time.  A      *)
(* text is lead spaces, then words of w letters each followed by the        *)
(* separator sep (the first reps words only), cut at len characters.        *)
(* Positions count from 0 as in the source.                                 *)
(***************************************************************************)
\* the separators of line 105, in the order they are tried
Separators == <<<<".", "\n">>, <<".", " ">>, <<"\n">>, <<" ">>>>

\* chunk_size and overlap: those of ingestion_service.py line 157 and the
\* defaults of lines 67-68
SplitParams == {[chunk_size |-> 500, overlap |-> 50],
                [chunk_size |-> 1000, overlap |-> 250]}

TextLens == {0, 1, 40, 52, 500, 501, 560, 1001, MaxTextLen}

SplitTexts ==
    [lead : {0, 2}, w : {7, 60, 201, 410, 2000},
     sep : {Separators[i] : i \in 1..Len(Separators)}, reps : {1, 200},
     len : TextLens]

\* the character at position i of the text t as it is passed in
RawChar(t, i) ==
    IF i < t.lead THEN " "
    ELSE LET j == i - t.lead
             period == t.w + Len(t.sep)
         IN  IF (j \div period) < t.reps /\ (j % period) >= t.w
             THEN t.sep[(j % period) - t.w + 1]
             ELSE "a"

\* the characters str.strip() removes that occur in the texts
IsSpace(c) == c \in {" ", "\n"}

\* s.strip() for the slice [from, to) of the raw text t: the slice of it
\* without the white space at its two ends
strip(t, from, to) ==
    IF \A i \in from..to - 1 : IsSpace(RawChar(t, i))
    THEN [from |-> from, to |-> from]
    ELSE [from |-> CHOOSE i \in from..to - 1 :
                      /\ ~IsSpace(RawChar(t, i))
                      /\ \A k \in from..i - 1 : IsSpace(RawChar(t, k)),
          to |-> to - (CHOOSE j \in 0..to - 1 - from :
                          /\ ~IsSpace(RawChar(t, to - 1 - j))
                          /\ \A k \in 0..j - 1 :
                                IsSpace(RawChar(t, to - 1 - k)))]

\* sep occurs at position idx of the slice of the raw text that starts at
\* from
OccursAt(t, from, idx, sep) ==
    \A k \in 1..Len(sep) : RawChar(t, from + idx + k - 1) = sep[k]

\* chunk.rfind(sep) for the chunk [from, from + clen) of the raw text: the
\* position of the last occurrence in the chunk, or -1
rfind(t, from, clen, sep) ==
    LET top == clen - Len(sep)
    IN  IF \E idx \in 0..top : OccursAt(t, from, idx, sep)
        THEN top - (CHOOSE j \in 0..top :
                       /\ OccursAt(t, from, top - j, sep)
                       /\ \A k \in 0..j - 1 : ~OccursAt(t, from, top - k, sep))
        ELSE -1

\* lines 104-110: the length of the chunk that starts at from and has clen
\* characters, after the cut at the first separator, in the order of
\* Separators, whose last occurrence lies beyond 40% of chunk_size
RECURSIVE CutAt(_, _, _, _, _)
CutAt(t, from, clen, chunk_size, k) ==
    IF k > Len(Separators) THEN clen
    ELSE LET idx == rfind(t, from, clen, Separators[k])
         IN  IF idx # -1 /\ 10 * idx > 4 * chunk_size
             THEN idx + Len(Separators[k])
             ELSE CutAt(t, from, clen, chunk_size, k + 1)

\* a filter that keeps every chunk
Keep_All(length) == TRUE

\* line 133: len(c) > 50
Keep(length) == length > 50

\* the call split_by_chars(text, chunk_size, overlap) before its first line
Called(t, params) ==
    [op |-> "split_by_chars", text |-> t, chunk_size |-> params.chunk_size,
     overlap |-> params.overlap, pc |-> "called", from |-> 0, n |-> 0,
     start |-> 0, chunks |-> <<>>, result |-> <<>>]

InitSplit ==
    /\ _index = NoIndex
    /\ _embedding_dim = NoDim
    /\ disk = NoIndex
    /\ documents = {}
    /\ chunks = <<>>
    /\ \E t \in SplitTexts, params \in SplitParams : last = Called(t, params)
    /\ turn = NoTurn
    /\ requests = [r \in Requests |-> NoRequest]
    /\ conversations = <<>>
    /\ messages = <<>>
    /\ supervisor = NoSupervisor

\* lines 75-81: text = text.strip(); an empty text returns []
SplitEnter ==
    /\ last.pc = "called"
    /\ \E text \in {strip(last.text, 0, last.text.len)} :
          last' = [last EXCEPT !.from = text.from,
                               !.n = text.to - text.from,
                               !.pc = IF text.to = text.from THEN "done"
                                      ELSE "loop"]
    /\ UNCHANGED <<_index, _embedding_dim, disk, documents, chunks, inflight,
                   chat_log, supervisor>>

\* lines 85-122: one iteration of the loop; chunks holds the length of
\* every chunk appended
SplitIterate ==
    /\ last.pc = "loop"
    /\ last.start < last.n
    /\ \E clen0 \in {Min(last.chunk_size, last.n - last.start)} :
       \E clen \in {IF last.start + last.chunk_size < last.n
                    THEN CutAt(last.text, last.from + last.start, clen0,
                               last.chunk_size, 1)
                    ELSE clen0} :
       \E end \in {IF last.start + last.chunk_size < last.n
                      /\ clen # clen0
                   THEN last.start + clen
                   ELSE last.start + last.chunk_size} :
       \E chunk \in {strip(last.text, last.from + last.start,
                           last.from + last.start + clen)} :
       \E next \in {Max({end - last.overlap, 0})} :
          last' = [last EXCEPT !.chunks = Append(@, chunk.to - chunk.from),
                               !.start = next,
                               !.pc = IF end >= last.n \/ next >= last.n
                                      THEN "filter" ELSE "loop"]
    /\ UNCHANGED <<_index, _embedding_dim, disk, documents, chunks, inflight,
                   chat_log, supervisor>>

\* lines 133-134: the chunks of more than 50 characters are returned
SplitReturn ==
    /\ last.pc = "filter"
    /\ last' = [last EXCEPT !.result = SelectSeq(last.chunks, Keep),
                            !.pc = "done"]
    /\ UNCHANGED <<_index, _embedding_dim, disk, documents, chunks, inflight,
                   chat_log, supervisor>>

NextSplit == SplitEnter \/ SplitIterate \/ SplitReturn

SpecSplit == InitSplit /\ [][NextSplit]_vars

\* the interpreter runs the next statement of a call that has not returned
FairSpecSplit == SpecSplit /\ WF_vars(NextSplit)

(***************************************************************************)
(* agents/guardrail_agent.py                                                *)
(*                                                                         *)
(* A string is the sequence of its characters.                              *)
(***************************************************************************)
UpperCase ==
    <<"A", "B", "C", "D", "E", "F", "G", "H", "I", "J", "K", "L", "M",
      "N", "O", "P", "Q", "R", "S", "T", "U", "V", "W", "X", "Y", "Z">>

LowerCase ==
    <<"a", "b", "c", "d", "e", "f", "g", "h", "i", "j", "k", "l", "m",
      "n", "o", "p", "q", "r", "s", "t", "u", "v", "w", "x", "y", "z">>

Digits == {"0", "1", "2", "3", "4", "5", "6", "7", "8", "9"}

Letters == {UpperCase[i] : i \in 1..26} \cup {LowerCase[i] : i \in 1..26}

\* str.lower() and str.upper(), character by character
lower(s) ==
    [i \in 1..Len(s) |->
        IF \E k \in 1..26 : UpperCase[k] = s[i]
        THEN LowerCase[CHOOSE k \in 1..26 : UpperCase[k] = s[i]]
        ELSE s[i]]

upper(s) ==
    [i \in 1..Len(s) |->
        IF \E k \in 1..26 : LowerCase[k] = s[i]
        THEN UpperCase[CHOOSE k \in 1..26 : LowerCase[k] = s[i]]
        ELSE s[i]]

Whitespace == {" ", "\n", "\t"}

\* str.strip(): the string without its leading and trailing whitespace
str_strip(s) ==
    IF \A i \in 1..Len(s) : s[i] \in Whitespace
    THEN <<>>
    ELSE LET first == CHOOSE i \in 1..Len(s) :
                          /\ s[i] \notin Whitespace
                          /\ \A j \in 1..i - 1 : s[j] \in Whitespace
             final == CHOOSE i \in 1..Len(s) :
                          /\ s[i] \notin Whitespace
                          /\ \A j \in i + 1..Len(s) : s[j] \in Whitespace
         IN  SubSeq(s, first, final)

\* p in s
Contains(s, p) ==
    \E i \in 0..Len(s) - Len(p) : \A j \in 1..Len(p) : s[i + j] = p[j]

InjectionPatterns ==
    << <<"i", "g", "n", "o", "r", "e", " ", "p", "r", "e", "v", "i", "o", "u", "s", " ", "i", "n", "s", "t", "r", "u", "c", "t", "i", "o", "n", "s">>,
       <<"d", "i", "s", "r", "e", "g", "a", "r", "d", " ", "t", "h", "e", " ", "a", "b", "o", "v", "e">>,
       <<"s", "y", "s", "t", "e", "m", " ", "p", "r", "o", "m", "p", "t">>,
       <<"y", "o", "u", " ", "a", "r", "e", " ", "n", "o", "w">>,
       <<"a", "c", "t", " ", "a", "s">> >>

_detect_prompt_injection(text) ==
    \E k \in 1..Len(InjectionPatterns) :
        Contains(lower(text), InjectionPatterns[k])

\* \w and \b of the regular expressions
IsWordChar(c) == c \in Letters \cup Digits \cup {"_"}

Boundary(s, i) ==
    (i >= 1 /\ i <= Len(s) /\ IsWordChar(s[i]))
        # (i + 1 >= 1 /\ i + 1 <= Len(s) /\ IsWordChar(s[i + 1]))

\* \b\d{n}\b matches in s
DigitRun(s, n) ==
    \E i \in 0..Len(s) - n :
        /\ \A j \in 1..n : s[i + j] \in Digits
        /\ Boundary(s, i)
        /\ Boundary(s, i + n)

\* \b\d{3}-\d{2}-\d{4}\b matches in s
SsnLike(s) ==
    \E i \in 0..Len(s) - 11 :
        /\ \A j \in {1, 2, 3, 5, 6, 8, 9, 10, 11} : s[i + j] \in Digits
        /\ s[i + 4] = "-"
        /\ s[i + 7] = "-"
        /\ Boundary(s, i)
        /\ Boundary(s, i + 11)

\* [a-zA-Z0-9_.+-]+@[a-zA-Z0-9-]+\.[a-zA-Z0-9-.]+ matches in s
EmailLike(s) ==
    \E a \in 2..Len(s) :
        /\ s[a] = "@"
        /\ s[a - 1] \in Letters \cup Digits \cup {"_", ".", "+", "-"}
        /\ \E d \in a + 2..Len(s) - 1 :
              /\ s[d] = "."
              /\ \A j \in a + 1..d - 1 : s[j] \in Letters \cup Digits \cup {"-"}
              /\ s[d + 1] \in Letters \cup Digits \cup {"-", "."}

_detect_pii(text) ==
    \/ DigitRun(text, 12)
    \/ SsnLike(text)
    \/ DigitRun(text, 10)
    \/ EmailLike(text)

UnsafeKeywords ==
    << <<"h", "a", "c", "k">>,
       <<"b", "y", "p", "a", "s", "s", " ", "s", "e", "c", "u", "r", "i", "t", "y">>,
       <<"e", "x", "p", "l", "o", "i", "t">>,
       <<"s", "t", "e", "a", "l", " ", "c", "r", "e", "d", "e", "n", "t", "i", "a", "l", "s">>,
       <<"m", "a", "l", "w", "a", "r", "e">> >>

_detect_unsafe_instruction(text) ==
    \E k \in 1..Len(UnsafeKeywords) :
        Contains(lower(text), UnsafeKeywords[k])

\* decision == "BLOCK" for the reply of the model
_llm_guardrail_check(reply) ==
    upper(str_strip(reply)) = <<"B", "L", "O", "C", "K">>

\* the checks of check(), in the order of its statements
Checks == <<"injection", "pii", "unsafe", "llm">>

ReasonOf_Generic(name) ==
    "Query violates safety or policy constraints."

\* the reason check() returns when the named check fires
ReasonOf(name) ==
    CASE name = "injection" -> "Prompt injection attempt detected."
      [] name = "pii" -> "Sensitive personal information detected."
      [] name = "unsafe" -> "Unsafe or disallowed instruction detected."
      [] name = "llm" -> "Query violates safety or policy constraints."

NoReason == "None"

\* no reply yet: self.llm has not been called
NoReply == <<>>

\* the queries: up to MaxFragments pieces of text, one after the other
Fragments ==
    << <<"h", "i", " ">>,
       <<"A", "c", "t", " ">>,
       <<"A", "s", " ">>,
       <<"y", "o", "u", " ", "a", "r", "e", " ", "n", "o", "w">>,
       <<"H", "A", "C", "K">>,
       <<"1", "2", "3", "4", "5">>,
       <<"1", "2", "3", "-", "4", "5", "-", "6", "7", "8", "9">>,
       <<"a", "@", "b", ".", "c">>,
       <<"x">> >>

RECURSIVE Concat(_)
Concat(pieces) ==
    IF pieces = <<>> THEN <<>> ELSE Head(pieces) \o Concat(Tail(pieces))

Queries == {Concat(p) : p \in SeqsUpTo({Fragments[k] : k \in 1..Len(Fragments)}, MaxFragments)}

\* what self.llm may answer
LlmReplies ==
    << <<"B", "L", "O", "C", "K">>,
       <<" ", "b", "l", "o", "c", "k", "\n">>,
       <<"A", "L", "L", "O", "W">>,
       <<"B", "L", "O", "C", "K", "E", "D">>,
       <<>> >>

\* check() after the check at position k of Checks: it returns when the
\* check fired, and goes on to the next statement when it did not
AfterCheck(k, fired, calls, reply) ==
    [op         |-> "check",
     user_query |-> last.user_query,
     pc         |-> IF fired \/ k = Len(Checks) THEN "done" ELSE Checks[k + 1],
     ran        |-> Append(last.ran, Checks[k]),
     llm_calls  |-> calls,
     llm_reply  |-> reply,
     allowed    |-> ~fired /\ k = Len(Checks),
     reason     |-> IF fired THEN ReasonOf(Checks[k]) ELSE NoReason]

GuardrailCheck(user_query) ==
    /\ user_query \in Queries
    /\ last.op = "check" => last.pc \in {"done", "raised"}
    /\ last' = [op         |-> "check",
                user_query |-> user_query,
                pc         |-> Checks[1],
                ran        |-> <<>>,
                llm_calls  |-> 0,
                llm_reply  |-> NoReply,
                allowed    |-> FALSE,
                reason     |-> NoReason]
    /\ UNCHANGED <<_index, _embedding_dim, disk, documents, chunks, inflight,
                   chat_log, supervisor>>

CheckInjection ==
    /\ last.op = "check"
    /\ last.pc = "injection"
    /\ last' = AfterCheck(1, _detect_prompt_injection(last.user_query), 0,
                        NoReply)
    /\ UNCHANGED <<_index, _embedding_dim, disk, documents, chunks, inflight,
                   chat_log, supervisor>>

CheckPii ==
    /\ last.op = "check"
    /\ last.pc = "pii"
    /\ last' = AfterCheck(2, _detect_pii(last.user_query), 0, NoReply)
    /\ UNCHANGED <<_index, _embedding_dim, disk, documents, chunks, inflight,
                   chat_log, supervisor>>

CheckUnsafe ==
    /\ last.op = "check"
    /\ last.pc = "unsafe"
    /\ last' = AfterCheck(3, _detect_unsafe_instruction(last.user_query), 0,
                        NoReply)
    /\ UNCHANGED <<_index, _embedding_dim, disk, documents, chunks, inflight,
                   chat_log, supervisor>>

\* self.llm(prompt) answers reply, or raises and check() raises with it
CheckLlm(reply, llm_ok) ==
    /\ last.op = "check"
    /\ last.pc = "llm"
    /\ last' = IF llm_ok
               THEN AfterCheck(4, _llm_guardrail_check(reply),
                               last.llm_calls + 1, reply)
               ELSE [last EXCEPT !.pc = "raised",
                                 !.ran = Append(last.ran, Checks[4]),
                                 !.llm_calls = last.llm_calls + 1]
    /\ UNCHANGED <<_index, _embedding_dim, disk, documents, chunks, inflight,
                   chat_log, supervisor>>

NextGuardrail ==
    \/ \E user_query \in Queries : GuardrailCheck(user_query)
    \/ CheckInjection
    \/ CheckPii
    \/ CheckUnsafe
    \/ \E k \in 1..Len(LlmReplies), llm_ok \in BOOLEAN :
          CheckLlm(LlmReplies[k], llm_ok)

SpecGuardrail == Init /\ [][NextGuardrail]_vars




(***************************************************************************)
(* Properties of the index lifecycle                                        *)
(***************************************************************************)
\* C4: when add_embeddings returns after inserting a non-empty batch the
\* file at INDEX_PATH holds every entry of the in-memory index, and no later
\* step (a crash and restart included) removes an entry from the file.
C4_AddPersistsBeforeReturn ==
    [][ /\ (/\ last'.op = "add_embeddings"
            /\ last'.status = "returned"
            /\ last'.vecs # <<>>)
           => (disk'.exists /\ disk' = _index')
        /\ Entries(disk) \subseteq Entries(disk') ]_vars

C4_Witness ==
    /\ last.op = "add_embeddings"
    /\ last.status = "returned"
    /\ last.vecs # <<>>
    /\ ntotal(_index) > Len(last.vecs)
    /\ disk = _index

\* C5: init_index on an initialized index changes neither the in-memory
\* index, nor its dimension, nor the file, whatever dimension is passed, so
\* every search answers the same before and after.
C5_InitIndexIdempotent ==
    [][ (last'.op = "init_index" /\ _index.exists)
        => /\ UNCHANGED <<_index, _embedding_dim, disk>>
           /\ \A q \in Vectors, k \in 1..MaxK :
                 search_similar(_index', q, k) = search_similar(_index, q, k) ]_vars

C5_Witness ==
    /\ last.op = "init_index"
    /\ last.was_init
    /\ last.dim # _embedding_dim
    /\ ntotal(_index) > 0

\* C6: the first init_index of a process loads the persisted index, with the
\* persisted dimension, when the file exists, and only otherwise creates an
\* empty index of the dimension passed.
C6_FirstInitLoadsOrCreates ==
    [][ (last'.op = "init_index" /\ ~_index.exists)
        => IF disk.exists
           THEN /\ _index' = disk
                /\ _embedding_dim' = disk.d
                /\ disk' = disk
           ELSE /\ _index' = [exists |-> TRUE, d |-> last'.dim,
                              ids |-> <<>>, vecs |-> <<>>]
                /\ _embedding_dim' = last'.dim ]_vars

C6_Witness ==
    /\ last.op = "init_index"
    /\ ~last.was_init
    /\ last.had_file
    /\ last.dim # _embedding_dim
    /\ _index = disk
    /\ ntotal(_index) > 0

\* C7: in a fresh process whose file at INDEX_PATH holds a vector, a search
\* for that vector returns the id stored with it, with no ingestion before.
C7_SearchAfterRestartFindsVector ==
    (/\ last.op = "search_similar"
     /\ ~_index.exists
     /\ \E p \in 1..ntotal(disk) : disk.vecs[p] = last.q)
    => /\ last.results # <<>>
       /\ \E p \in 1..ntotal(disk) :
             disk.vecs[p] = last.q /\ disk.ids[p] = last.results[1][1]

\* every stored vector has the dimension of the index that stores it
DimensionInvariant ==
    /\ \A i \in 1..ntotal(_index) : Len(_index.vecs[i]) = _index.d
    /\ \A i \in 1..ntotal(disk) : Len(disk.vecs[i]) = disk.d
    /\ _index.exists => _embedding_dim = _index.d

\* the add_embeddings call of this step names a vector whose length differs
\* from the dimension of the index (in memory, else on disk, else the one
\* inferred from the first vector)
MismatchedAdd ==
    /\ last'.op = "add_embeddings"
    /\ last'.vecs # <<>>
    /\ LET d == IF _index.exists THEN _index.d
                ELSE IF disk.exists THEN disk.d
                ELSE Len(last'.vecs[1])
       IN  \E i \in 1..Len(last'.vecs) : Len(last'.vecs[i]) # d

\* C8 as stated: a mismatched add raises and leaves the in-memory index and
\* the file exactly as they were.
C8_MismatchLeavesAllUnchanged ==
    [][ /\ DimensionInvariant'
        /\ MismatchedAdd => /\ last'.status = "raised"
                            /\ _index' = _index
                            /\ disk' = disk ]_vars

\* C8 amended: every stored vector has the index's dimension; a mismatched
\* add raises, leaves the file unchanged and adds no entry of the batch: the
\* in-memory index is unchanged, or it was uninitialized and is now the
\* persisted index, loaded.
C8_MismatchAddsNothing ==
    [][ /\ DimensionInvariant'
        /\ MismatchedAdd => /\ last'.status = "raised"
                            /\ disk' = disk
                            /\ \/ _index' = _index
                               \/ (~_index.exists /\ _index' = disk) ]_vars

C8_Witness ==
    /\ last.op = "add_embeddings"
    /\ last.status = "raised"
    /\ last.was_init
    /\ ntotal(_index) > 0
    /\ \E i \in 1..Len(last.vecs) : Len(last.vecs[i]) # _index.d
    /\ disk = _index

\* C9: search_similar returns min(k, ntotal) pairs (id, distance) of stored
\* entries, nearest first, none farther than an entry left out, never the
\* filler id -1, and the empty list on an uninitialized or empty index.
C9_SearchReturnsNearest ==
    (last.op = "search_similar" /\ last.status = "returned")
    => LET r == last.results
           n == ntotal(_index)
       IN  /\ Len(r) = (IF _index.exists THEN Min(last.k, n) ELSE 0)
           /\ \A i \in 1..Len(r) : r[i][1] # -1
           /\ \A i, j \in 1..Len(r) : i < j => r[i][2] <= r[j][2]
           /\ \E f \in [1..Len(r) -> 1..n] :
                 /\ \A i, j \in 1..Len(r) : i # j => f[i] # f[j]
                 /\ \A i \in 1..Len(r) :
                       /\ r[i][1] = _index.ids[f[i]]
                       /\ r[i][2] = SqDist(_index.vecs[f[i]], last.q)
                 /\ \A p \in 1..n :
                       (\A i \in 1..Len(r) : f[i] # p)
                       => \A i \in 1..Len(r) :
                             r[i][2] <= SqDist(_index.vecs[p], last.q)

C9_Witness ==
    /\ last.op = "search_similar"
    /\ last.status = "returned"
    /\ Len(last.results) = last.k
    /\ ntotal(_index) > last.k
    /\ last.k >= 2
    /\ last.results[1][2] < last.results[2][2]
    /\ _index.ids[1] # last.results[1][1]

(***************************************************************************)
(* Properties of the answer engine and of the retriever                     *)
(***************************************************************************)

\* C1: whenever the generation result has a confidence below
\* ESCALATION_CONFIDENCE_THRESHOLD the turn ends with escalate_to_human
\* true, whatever flag the model reported.
C1_ThresholdOverride ==
    (/\ last.op = "answer_with_rag"
     /\ last.llm_calls = 1
     /\ last.llm_result.status = "returned"
     /\ last.llm_result.confidence < 55)
    => /\ last.llm_result.escalate_to_human
       /\ last.status = "returned"
       /\ last.result.escalate_to_human

C1_Witness ==
    /\ last.op = "answer_with_rag"
    /\ last.llm_calls = 1
    /\ last.raw.kind = "object"
    /\ last.raw.fields.escalate = "false"
    /\ last.raw.fields.confidence = [t |-> "number", v |-> 54]
    /\ last.result.escalate_to_human

\* C2: a response that is no JSON, or JSON but no object, or an object whose
\* confidence does not convert, ends the turn normally with the whole raw
\* text as the answer, escalate_to_human false and confidence 0.7, whatever
\* the other keys held.
C2_FallbackOnParseFailure ==
    (/\ last.op = "answer_with_rag"
     /\ last.llm_calls = 1
     /\ \/ last.raw.kind \in {"text", "json"}
        \/ /\ last.raw.kind = "object"
           /\ last.raw.fields.confidence.t \in {"string", "null"})
    => /\ last.status = "returned"
       /\ last.llm_result.answer = "raw"
       /\ last.llm_result.confidence = 70
       /\ ~last.llm_result.escalate_to_human
       /\ last.result.answer = "raw"
       /\ ~last.result.escalate_to_human

C2_Witness ==
    /\ last.op = "answer_with_rag"
    /\ last.llm_calls = 1
    /\ last.raw.kind = "object"
    /\ last.raw.fields.answer = "string"
    /\ last.raw.fields.escalate = "true"
    /\ last.raw.fields.confidence.t = "string"
    /\ last.status = "returned"
    /\ last.result.answer = "raw"

\* C3: a turn whose retrieval yields no chunk never calls the generation
\* model and returns the fixed escalation answer with escalate_to_human
\* true and no context document.
C3_NoChunksNoGeneration ==
    (/\ last.op = "answer_with_rag"
     /\ last.status = "returned"
     /\ last.final = <<>>)
    => /\ last.llm_calls = 0
       /\ last.raw = NoRaw
       /\ last.result = [answer |-> "hard_escalation",
                         escalate_to_human |-> TRUE,
                         context_docs |-> <<>>]

C3_Witness ==
    /\ last.op = "answer_with_rag"
    /\ last.status = "returned"
    /\ last.final = <<>>
    /\ last.llm_calls = 0
    /\ last.result.escalate_to_human
    /\ chunks # <<>>

LastResults ==
    search_similar(_index, get_embedding(last.query), TOP_K_RETRIEVER).results

StoredIds == {chunks[i].id : i \in 1..Len(chunks)}

\* C11: a retrieval whose index results name ids of no stored chunk returns
\* without error; no such id is among the candidates given to the reranker
\* nor in the output, and the candidates given to the reranker are exactly
\* the results whose id is stored, in the order of the results.
C11_OrphansDropped ==
    last.op = "retrieve_relevant_chunks"
    => LET IsStored(r) == r[1] \in StoredIds
           resolving == SelectSeq(LastResults, IsStored)
       IN  /\ last.status = "returned"
           /\ \A j \in 1..Len(last.candidates) :
                 last.candidates[j][1] \in StoredIds
           /\ \A i \in 1..Len(last.final) : last.final[i][1].id \in StoredIds
           /\ Len(last.candidates) = Len(resolving)
           /\ \A j \in 1..Len(resolving) :
                 last.candidates[j][1] = resolving[j][1]
           /\ resolving # <<>> => last.reranks = 1

C11_Witness ==
    /\ last.op = "retrieve_relevant_chunks"
    /\ last.status = "returned"
    /\ Len(LastResults) >= 3
    /\ LastResults[1][1] \notin StoredIds
    /\ LastResults[2][1] \in StoredIds
    /\ Len(last.final) = 2

\* the row of table document_chunks whose id is cid
StoredChunk(cid) == chunks[CHOOSE i \in 1..Len(chunks) : chunks[i].id = cid]

\* C12: whatever the order in which the table hands out the fetched rows,
\* retrieve_relevant_chunks gives the same candidates and the same output;
\* the text scored for a candidate id is the content of the stored chunk of
\* that id, and each output pair is the stored chunk of an id with the
\* score computed for that id.
C12_FetchOrderIrrelevant ==
    last.op = "retrieve_relevant_chunks"
    => /\ \A order \in StorageOrders :
             LET got == retrieve_relevant_chunks(
                            _index, InStorageOrder(chunks, order), last.query,
                            TOP_K_RETRIEVER, last.predict, TRUE)
             IN  /\ got.candidates = last.candidates
                 /\ got.final = last.final
       /\ \A j \in 1..Len(last.candidates) :
             /\ last.candidates[j][1] \in StoredIds
             /\ last.candidates[j][2]
                  = StoredChunk(last.candidates[j][1]).content
       /\ \A i \in 1..Len(last.final) :
             /\ last.final[i][1].id \in StoredIds
             /\ last.final[i][1] = StoredChunk(last.final[i][1].id)
             /\ \E j \in 1..Len(last.candidates) :
                   /\ last.candidates[j][1] = last.final[i][1].id
                   /\ last.final[i][2] = last.predict[last.candidates[j][2]]

C12_Witness ==
    /\ last.op = "retrieve_relevant_chunks"
    /\ last.order = "reverse"
    /\ Len(last.final) = 2
    /\ last.final[1][1].content # last.final[2][1].content
    /\ last.final[1][2] > last.final[2][2]
    /\ last.final[1][1].id > last.final[2][1].id
    /\ Len(LastResults) > Len(last.candidates)

(***************************************************************************)
(* Properties of the context builder                                        *)
(***************************************************************************)

\* C13: for every list of ranked results build_context_from_chunks gives
\* as many descriptors as context blocks, one of each per result, and the
\* i-th descriptor names the file, the document id and the chunk id that
\* the header of the i-th block names, those of the i-th result.
C13_CitationParity ==
    last.op = "build_context_from_chunks"
    => /\ Len(last.context_docs) = Len(last.sections)
       /\ Len(last.sections) = Len(last.chunks_with_scores)
       /\ \A i \in 1..Len(last.sections) :
             /\ last.sections[i].snippet = i
             /\ last.context_docs[i].filename = last.sections[i].filename
             /\ last.context_docs[i].doc_id = last.sections[i].doc_id
             /\ last.context_docs[i].chunk_id = last.sections[i].chunk_id
             /\ last.sections[i].doc_id
                  = last.chunks_with_scores[i][1].document_id
             /\ last.sections[i].chunk_id = last.chunks_with_scores[i][1].id
             /\ last.sections[i].content
                  = last.chunks_with_scores[i][1].content

C13_Witness ==
    /\ last.op = "build_context_from_chunks"
    /\ Len(last.context_docs) = 3
    /\ last.context_docs[1].doc_id # last.context_docs[3].doc_id
    /\ last.context_docs[1].chunk_id # last.context_docs[2].chunk_id
    /\ last.sections[3].chunk_id = last.context_docs[3].chunk_id

(***************************************************************************)
(* Properties of a turn                                                     *)
(***************************************************************************)

\* how far a turn has come
Position(pc) ==
    CASE pc = "idle" -> 0
      [] pc = "embed" -> 1
      [] pc = "search" -> 2
      [] pc = "rerank" -> 3
      [] pc = "generate" -> 4
      [] OTHER -> 5

\* C14: a turn embeds, searches, reranks and generates at most once each;
\* every step moves it forward, so no call is repeated and a failed
\* embedding or generation call ends it in ERROR at once; a turn that has
\* started ends in ESCALATED_NO_CONTEXT (no generation call, the fixed
\* answer), in DONE (one generation call) or in ERROR (no result).
C14_SingleForwardPass ==
    /\ [](/\ turn.embeds <= 1
          /\ turn.searches <= 1
          /\ turn.reranks <= 1
          /\ turn.llm_calls <= 1)
    /\ [][ \/ turn.pc \in Resting /\ turn'.pc = "embed"
           \/ Position(turn'.pc) > Position(turn.pc) ]_turn
    /\ [](turn.pc = "ESCALATED_NO_CONTEXT"
          => turn.llm_calls = 0 /\ turn.result = HardEscalation)
    /\ [](turn.pc = "DONE"
          => /\ turn.searches = 1 /\ turn.reranks = 1 /\ turn.llm_calls = 1
             /\ turn.result.answer \in {"raw", "field"})
    /\ [](turn.pc = "ERROR" => turn.result = NoResult)
    /\ (turn.pc = "embed")
          ~> (turn.pc \in {"ESCALATED_NO_CONTEXT", "DONE", "ERROR"})

C14_Witness ==
    /\ turn.pc = "ERROR"
    /\ turn.embeds = 1
    /\ turn.searches = 1
    /\ turn.reranks = 1
    /\ turn.llm_calls = 1
    /\ Len(turn.final) = 2

(***************************************************************************)
(* Properties of the ingestion                                              *)
(***************************************************************************)

\* every entry of the index idx carries the id of exactly one row of table
\* document_chunks and the embedding of the content of that row
EntriesMatchChunks(idx) ==
    \A p \in 1..ntotal(idx) :
        /\ Cardinality({i \in 1..Len(chunks) : chunks[i].id = idx.ids[p]}) = 1
        /\ idx.vecs[p] = get_embedding(StoredChunk(idx.ids[p]).content)

\* C15: after any sequence of uploads, failed ones included, every id of
\* the in-memory index and of the persisted index is the primary key of
\* exactly one stored chunk, and the vector under it is the embedding of
\* that chunk's content.
C15_IndexIdsAreChunkKeys ==
    /\ EntriesMatchChunks(_index)
    /\ EntriesMatchChunks(disk)

C15_Witness ==
    /\ last.op = "ingest_uploaded_files"
    /\ last.status = "returned"
    /\ ntotal(_index) >= 3
    /\ Len(chunks) > ntotal(_index)
    /\ _index.vecs[ntotal(_index)] # _index.vecs[ntotal(_index) - 1]
    /\ _index.ids[ntotal(_index)] = chunks[Len(chunks)].id
    /\ disk = _index

\* C16: when ingest_uploaded_files has returned or raised, the ids of the
\* stored chunks are the ids of the persisted index, and of the in-memory
\* index when the process has one.
C16_ChunksAndVectorsTogether ==
    last.op = "ingest_uploaded_files"
    => /\ StoredIds = IndexIdsOf(disk)
       /\ _index.exists => StoredIds = IndexIdsOf(_index)

(***************************************************************************)
(* Properties of the chat endpoint                                          *)
(***************************************************************************)

\* C17: a chat request whose pipeline raises (no API key, embedding model
\* or chat model failing) is answered with status 200 and a response that
\* says it cannot answer and has escalate_to_human true.
C17_ErrorsBecomeEscalation ==
    (last.op = "chat" /\ last.pipeline = "raised")
    => /\ last.http = 200
       /\ last.response.answer = "unable_to_answer"
       /\ last.response.escalate_to_human

(***************************************************************************)
(* Properties of the answer result                                          *)
(***************************************************************************)

\* C18: the result of a turn that called the generation model has a
\* confidence, and the confidence of the generation result is between 0
\* and 1, whatever confidence the model reported.
C18_ConfidenceInUnitRange ==
    (/\ last.op = "answer_with_rag"
     /\ last.status = "returned"
     /\ last.llm_calls = 1)
    => /\ last.llm_result.confidence >= 0
       /\ last.llm_result.confidence <= 100
       /\ "confidence" \in DOMAIN last.result

(***************************************************************************)
(* Properties of concurrent adds                                            *)
(***************************************************************************)

\* C19: when no add_embeddings call is running, the in-memory index and
\* the file hold every entry of the batch of every call that has returned.
C19_NoBatchLost ==
    Quiet
    => \A r \in Requests :
          requests[r].pc = "returned"
          => \A i \in 1..Len(requests[r].chunk_ids) :
                /\ <<requests[r].chunk_ids[i], requests[r].embeddings[i]>>
                      \in Entries(_index)
                /\ <<requests[r].chunk_ids[i], requests[r].embeddings[i]>>
                      \in Entries(disk)

\* a handle call on a knowledge query whose rewriter, if called, returned
KnowledgeTurn ==
    /\ last.op = "handle"
    /\ last.rag_tool = "injected"
    /\ last.intent = "knowledge_query"
    /\ last.rewrite_ok

\* C20: a supervisor constructed from a RAG tool and an LLM is built, and a
\* handle call on a query classified as knowledge_query completes and
\* returns one of the dicts rag_tool.run returned in that call, unchanged,
\* also when that dict has no confidence
C20_HandleReturnsRagResult ==
    /\ supervisor.args = {"rag_tool", "llm"} => supervisor.status = "built"
    /\ KnowledgeTurn
       => /\ last.status = "returned"
          /\ \E i \in 1..Len(last.runs) : (last.result = (last.runs[i]))

\* the messages of the conversation of the latest chat request when its
\* history was read: all but the assistant answer appended afterwards
ConversationAtRead ==
    LET cid == CHOOSE i \in 1..Len(conversations) :
                   conversations[i] = last.session_id
        Mine(m) == m.conversation_id = cid
        mine == SelectSeq(messages, Mine)
    IN  IF last.http = 200 THEN SubSeq(mine, 1, Len(mine) - 1) ELSE mine

\* the n most recent elements of a sequence, oldest first
MostRecent(seq, n) == SubSeq(seq, Max({1, Len(seq) - n + 1}), Len(seq))

\* two history entries with the same role and the same content
SameMessage(a, b) == a.role = b.role /\ a.content = b.content

\* C21: the history a chat request passes to the pipeline is the 10 most
\* recent messages of its conversation in chronological order, so its last
\* element is the user message saved by the same request
C21_HistoryIsMostRecent ==
    (last.op = "chat" /\ last.pipeline # "not_run")
    => /\ \E recent \in {MostRecent(ConversationAtRead, 10)} :
             /\ Len(last.history) = Len(recent)
             /\ \A i \in 1..Len(recent) :
                   SameMessage(last.history[i], recent[i])
       /\ SameMessage(last.history[Len(last.history)],
                      [role |-> "user", content |-> last.message])

\* the id of the conversation of a session in a conversations table
ConversationOf(convs, session_id) ==
    CHOOSE i \in 1..Len(convs) : convs[i] = session_id

C23_SingleRetry ==
    last.op = "handle"
    => /\ Len(last.queries) <= 2
       /\ last.rewrites <= 1
       /\ last.intent \in {"small_talk", "out_of_scope"}
          => /\ last.queries = <<>>
             /\ last.rewrites = 0
             /\ last.status = "returned"
             /\ (last.result = (IF last.intent = "small_talk"
                         THEN SmallTalkResult ELSE OutOfScopeResult))
             /\ ~last.result.escalate_to_human
             /\ last.result.context_docs = <<>>

\* a small-talk query has been answered
C23_Witness ==
    /\ last.op = "handle"
    /\ last.intent = "small_talk"
    /\ (last.result = (SmallTalkResult))

\* a handle call that went to the RAG tool and whose rewriter, if called,
\* returned
RagTurn ==
    /\ last.op = "handle"
    /\ last.rag_tool = "injected"
    /\ last.intent \notin {"small_talk", "out_of_scope"}
    /\ last.rewrite_ok

\* a dict that does not escalate and has a confidence of at least 0.65
AtLeast065(result) ==
    IF result.escalate_to_human THEN FALSE
    ELSE IF result.confidence # NoConfidence THEN result.confidence >= 65
    ELSE FALSE

\* C24: handle returns the first RAG result without retrying exactly when
\* that result does not escalate and has a confidence of at least 0.65;
\* otherwise it runs the RAG tool again on the rewritten query and returns
\* the second result when its confidence is strictly greater than the
\* first's, and the first result otherwise
C24_ConfidentOrBest ==
    RagTurn
    => /\ (Len(last.runs) = 1) = AtLeast065(last.runs[1])
       /\ Len(last.runs) = 1
          => /\ last.queries = <<last.user_query>>
             /\ last.rewrites = 0
             /\ (last.result = (last.runs[1]))
       /\ Len(last.runs) # 1
          => /\ last.queries = <<last.user_query, last.rewritten>>
             /\ Len(last.runs) = 2
             /\ (last.result = (IF GetConfidence(last.runs[2]) > GetConfidence(last.runs[1])
                         THEN last.runs[2] ELSE last.runs[1]))

\* a retry whose two results tie on a positive confidence
C24_Witness ==
    /\ RagTurn
    /\ Len(last.runs) = 2
    /\ last.runs[1].confidence = 64
    /\ last.runs[2].confidence = 64
    /\ (last.result = (last.runs[1]))
    /\ ~(last.result = (last.runs[2]))

\* C27: with a RAGTool, whose dicts have no confidence, a handle call on a
\* knowledge query that returns has run the rewrite and the second RAG
\* attempt, and returns the first result
C27_RealToolAlwaysRetries ==
    (/\ last.op = "handle"
     /\ last.rag_tool = "RAGTool"
     /\ last.intent = "knowledge_query"
     /\ last.status = "returned")
    => /\ \A i \in 1..Len(last.runs) : last.runs[i].confidence = NoConfidence
       /\ last.rewrites = 1
       /\ last.queries = <<last.user_query, last.rewritten>>
       /\ Len(last.runs) = 2
       /\ (last.result = (last.runs[1]))

\* the first attempt gave an answer that does not escalate and cites a
\* document, the second attempt gave another one, and the first is returned
C27_Witness ==
    /\ last.op = "handle"
    /\ last.rag_tool = "RAGTool"
    /\ last.intent = "knowledge_query"
    /\ last.status = "returned"
    /\ Len(last.runs) = 2
    /\ ~last.runs[1].escalate_to_human
    /\ last.runs[1].context_docs # <<>>
    /\ ~(last.runs[2] = (last.runs[1]))
    /\ (last.result = (last.runs[1]))

RECURSIVE TotalLen(_)
\* the number of chunks of a list of files
TotalLen(files) ==
    IF files = <<>> THEN 0 ELSE Len(files[1]) + TotalLen(Tail(files))

\* the id of the document row made for the i-th file of an upload
DocIdOf(i) == NextId(documents) + i - 1

\* an upload step whose ingestion returned
UploadReturned ==
    /\ last'.op = "upload_docs"
    /\ documents' # documents
    /\ last'.status = "returned"

\* C26: a file that yields no chunks adds no chunk row and no index entry
\* and its document id is not returned, the other files of the upload are
\* ingested, and an upload of such files only is answered 400 'No valid
\* text extracted from files'
C26_EmptyFilesSkipped ==
    [][UploadReturned
       => \E files \in {last'.files} :
             /\ Len(chunks') = Len(chunks) + TotalLen(files)
             /\ IndexIdsOf(_index') \ (IndexIdsOf(_index) \cup IndexIdsOf(disk))
                = {chunks'[k].id : k \in Len(chunks) + 1..Len(chunks')}
             /\ \A i \in 1..Len(files) :
                   /\ (files[i] = <<>>)
                      = (\A k \in 1..Len(last'.document_ids) :
                            last'.document_ids[k] # DocIdOf(i))
                   /\ Cardinality({k \in 1..Len(chunks') :
                                      chunks'[k].document_id = DocIdOf(i)})
                      = Len(files[i])
                   /\ \A k \in 1..Len(chunks') :
                         chunks'[k].document_id = DocIdOf(i)
                         => chunks'[k].id \in IndexIdsOf(_index')
             /\ IF \A i \in 1..Len(files) : files[i] = <<>>
                THEN last'.http = 400 /\ last'.detail = "no_valid_text"
                ELSE last'.http = 200]_vars

\* an upload of a file without chunks and a file with chunks has returned
\* the id of the second document only
C26_Witness ==
    /\ last.op = "upload_docs"
    /\ last.files = <<<<>>, <<1, 0>>>>
    /\ last.http = 200
    /\ Len(last.document_ids) = 1
    /\ last.document_ids[1] \in documents
    /\ last.document_ids[1] - 1 \in documents
    /\ \A k \in 1..Len(chunks) : chunks[k].document_id # last.document_ids[1] - 1

\* the index answered the query of the latest answer_with_rag call with
\* results, and none of their ids is the id of a stored chunk
OnlyOrphansFound ==
    /\ last.op = "answer_with_rag"
    /\ LastResults # <<>>
    /\ \A i \in 1..Len(LastResults) : LastResults[i][1] \notin StoredIds

\* C28: when the index returns results none of which resolves to a stored
\* chunk, retrieve_relevant_chunks returns the empty list without calling
\* the reranker, and answer_with_rag returns the hard-escalation answer of
\* the empty index without calling the generation model
C28_OnlyOrphansEscalate ==
    OnlyOrphansFound
    => /\ last.status = "returned"
       /\ last.searches = 1
       /\ last.reranks = 0
       /\ last.final = <<>>
       /\ last.llm_calls = 0
       /\ last.result.answer = "hard_escalation"
       /\ last.result.escalate_to_human
       /\ last.result.context_docs = <<>>

\* the index holds two entries whose chunk rows are gone
C28_Witness ==
    /\ OnlyOrphansFound
    /\ Len(LastResults) >= 2
    /\ last.result.answer = "hard_escalation"

\* C29: in every analytics summary escalated_conversations is at most
\* total_conversations and the resolution rate is between 0% and 100%
C29_RateWithinRange ==
    last.op = "analytics_summary"
    => /\ last.summary.escalated_conversations
             <= last.summary.total_conversations
       /\ last.summary.resolution_rate >= 0
       /\ last.summary.resolution_rate <= 10000

\* C30: split_by_chars returns for every text with the parameters of
\* ingestion (500, 50) and with its defaults (1000, 250): every loop
\* iteration moves start forward, and every returned chunk has more than
\* 50 and at most chunk_size characters
C30_SplitTerminates ==
    /\ [][(last.pc = "loop" /\ last'.chunks # last.chunks)
          => last'.start > last.start]_vars
    /\ [](\A i \in 1..Len(last.result) :
             last.result[i] > 50 /\ last.result[i] <= last.chunk_size)
    /\ <>(last.pc = "done")

\* a text has been split with the parameters of ingestion into at least
\* three chunks, one of which but not the last was cut at a separator
C30_Witness ==
    /\ last.op = "split_by_chars"
    /\ last.pc = "done"
    /\ last.chunk_size = 500
    /\ Len(last.result) >= 3
    /\ \E i \in 1..Len(last.result) - 1 : last.result[i] < last.chunk_size

\* C25: GuardrailAgent.check runs its checks in the order prompt injection,
\* PII, unsafe instruction, LLM classifier; it never calls the LLM when a
\* rule-based check fires on the query; when it returns, allowed is true
\* only if none of the four checks fired, and otherwise the reason is that
\* of the first check that fires.
C25_FirstFiringCheckDecides ==
    last.op = "check" =>
        LET q == last.user_query
            inj == _detect_prompt_injection(q)
            pii == _detect_pii(q)
            unsafe == _detect_unsafe_instruction(q)
            order == <<"injection", "pii", "unsafe", "llm">>
        IN  /\ Len(last.ran) <= 4
            /\ \A i \in 1..Len(last.ran) : last.ran[i] = order[i]
            /\ (inj \/ pii \/ unsafe) => last.llm_calls = 0
            /\ last.llm_calls <= 1
            /\ last.pc = "done" =>
                  /\ last.allowed =>
                        /\ ~inj /\ ~pii /\ ~unsafe
                        /\ last.llm_calls = 1
                        /\ ~_llm_guardrail_check(last.llm_reply)
                        /\ last.reason = NoReason
                  /\ ~last.allowed =>
                        last.reason =
                            IF inj THEN "Prompt injection attempt detected."
                            ELSE IF pii
                            THEN "Sensitive personal information detected."
                            ELSE IF unsafe
                            THEN "Unsafe or disallowed instruction detected."
                            ELSE "Query violates safety or policy constraints."
                  /\ (~last.allowed /\ ~inj /\ ~pii /\ ~unsafe) =>
                        /\ last.llm_calls = 1
                        /\ _llm_guardrail_check(last.llm_reply)

\* check has returned for a query on which two rule-based checks fire
C25_Witness ==
    /\ last.op = "check"
    /\ last.pc = "done"
    /\ ~_detect_prompt_injection(last.user_query)
    /\ _detect_pii(last.user_query)
    /\ _detect_unsafe_instruction(last.user_query)
    /\ last.reason = "Sensitive personal information detected."
    /\ last.llm_calls = 0

====
